---- MODULE Spec2Model ----
(***************************************************************************)
(* Factor computation and multi-level cross-sectional scoring engine.      *)
(*                                                                         *)
(* Real numbers are carried as fixed-point integers: the real x is the     *)
(* integer x * Scale, every division rounds to the nearest unit.  A        *)
(* missing value (np.nan, an absent column of a row) is the value NaN.     *)
(* Factor columns are numbered 1..15 in the order of the three factor      *)
(* lists of _calculate_dimension_scores:                                   *)
(*   1..6   ROE, ROA, gross margin, FCFF/assets, gross profit/assets,      *)
(*          cash-flow quality                      (profitability)         *)
(*   7..11  the five growth factors                (growth)                *)
(*   12..15 low beta, low idiosyncratic risk, low debt ratio, Altman Z     *)
(*                                                  (safety)               *)
(***************************************************************************)
EXTENDS Integers, Sequences, FiniteSets, TLC

VARIABLES pc, factor_data, total_mv, merged_data, standardized_data,
          dimension_scores, final_data,
          panel_row, target_years, growth,
          financial_data, cleaned_data, profitability_result,
          market_data, safety_financial_data, market_value_data,
          safety_cleaned_data, safety_result,
          panel_data, years_list, results_df, composite_result,
          date_list, stock_codes_arg, environment, cursor, batch_results, success_count, summary,
          calculation_year, growth_financial_data, mean_exact, growth_rates, growth_result,
          api_answers, attempt, api_log, api_result,
          stock_list, fetch_answers, full_update_arg, backup_ok, update_counter, full_update, update_cursor, stock_financial_indicators

std_vars == <<factor_data, total_mv, merged_data, standardized_data,
              dimension_scores, final_data>>
growth_vars == <<panel_row, target_years, growth>>
quarterly_vars == <<financial_data, cleaned_data, profitability_result>>
safety_vars == <<market_data, safety_financial_data, market_value_data,
                 safety_cleaned_data, safety_result>>

composite_vars == <<panel_data, years_list, results_df, composite_result>>

batch_vars == <<date_list, stock_codes_arg, environment, cursor, batch_results, success_count, summary>>

growth_factor_vars == <<calculation_year, growth_financial_data, mean_exact, growth_rates, growth_result>>

api_vars == <<api_answers, attempt, api_log, api_result>>

update_vars == <<stock_list, fetch_answers, full_update_arg, backup_ok, update_counter, full_update, update_cursor, stock_financial_indicators>>

vars == <<pc, std_vars, growth_vars, quarterly_vars, safety_vars, composite_vars, batch_vars, growth_factor_vars, api_vars, update_vars>>

\* no safety computation is under way
SafetyIdle ==
    /\ market_data = <<>>
    /\ safety_financial_data = <<>>
    /\ market_value_data = <<>>
    /\ safety_cleaned_data = <<>>
    /\ safety_result = <<>>

\* no composite computation is under way
CompositeIdle ==
    /\ panel_data = <<>>
    /\ years_list = <<>>
    /\ results_df = <<>>
    /\ composite_result = <<>>

\* no batch calculation is under way
BatchIdle ==
    /\ date_list = <<>>
    /\ stock_codes_arg = <<>>
    /\ environment = <<>>
    /\ cursor = <<>>
    /\ batch_results = <<>>
    /\ success_count = <<>>
    /\ summary = <<>>

\* no growth-factor computation is under way
GrowthFactorIdle ==
    /\ calculation_year = <<>>
    /\ growth_financial_data = <<>>
    /\ mean_exact = <<>>
    /\ growth_rates = <<>>
    /\ growth_result = <<>>

\* no API call is under way
ApiIdle ==
    /\ api_answers = <<>>
    /\ attempt = <<>>
    /\ api_log = <<>>
    /\ api_result = <<>>

\* no data update is under way
UpdateIdle ==
    /\ stock_list = <<>>
    /\ fetch_answers = <<>>
    /\ full_update_arg = <<>>
    /\ backup_ok = <<>>
    /\ update_counter = <<>>
    /\ full_update = <<>>
    /\ update_cursor = <<>>
    /\ stock_financial_indicators = <<>>

----------------------------------------------------------------------------
(* Numbers *)

Scale == 1000

NaN == -99999999

notna(x) == x # NaN

\* a / b rounded to the nearest unit (b > 0)
RDiv(a, b) == (2 * a + b) \div (2 * b)

RECURSIVE SumSeq(_)
SumSeq(s) == IF s = <<>> THEN 0 ELSE Head(s) + SumSeq(Tail(s))

RECURSIVE SqrtIter(_, _)
SqrtIter(x, r) ==
    LET r2 == (r + x \div r) \div 2
    IN IF r2 >= r THEN r ELSE SqrtIter(x, r2)

\* the integer nearest to the square root of x (x >= 0)
Sqrt(x) ==
    IF x = 0 THEN 0
    ELSE LET r == SqrtIter(x, x)
         IN IF x - r * r > r THEN r + 1 ELSE r

dropna(s) == SelectSeq(s, notna)

\* np.mean / Series.mean of a non-empty sequence of numbers
mean(s) == RDiv(SumSeq(s), Len(s))

SqDev(s, m) == [i \in 1..Len(s) |-> (s[i] - m) * (s[i] - m)]

\* Series.std(ddof=1) / np.std(x, ddof=1): sample standard deviation, Len(s) >= 2
std_ddof1(s) == Sqrt(RDiv(SumSeq(SqDev(s, mean(s))), Len(s) - 1))

\* (value - mean_val) / std_val
zscore(x, mean_val, std_val) == RDiv((x - mean_val) * Scale, std_val)

----------------------------------------------------------------------------
(* Configuration *)

\* factor lists of _calculate_dimension_scores, as column numbers
profitability_factors == <<1, 2, 3, 4, 5, 6>>
growth_factors == <<7, 8, 9, 10, 11>>
safety_factors == <<12, 13, 14, 15>>
FactorCols == 1..15

\* get_missing_thresholds()
profitability_min_factors == 4
growth_min_factors == 3
safety_min_factors == 3
max_missing_dimensions == 1

\* GLOBAL_CONFIG["market_cap"]["large_small_cutoff"]
large_small_cutoff == 100

\* the literal 5 of "if len(group_data) < 5" and "if len(factor_values) >= 5"
MinGroupSize == 5

MarketCapGroups == <<"large_cap", "small_cap">>
NoGroup == "nan"

----------------------------------------------------------------------------
(* FactorCalculator._get_market_cap_classification and the left merge of
   FactorStandardizer.standardize_factors *)

\* mv: ts_code -> latest total_mv of the lookback window, NaN when the stock
\* has no market-value row in the window
GetMarketCapClassification(codes, mv) ==
    IF \A c \in codes : mv[c] = NaN
    THEN [c \in codes |-> "large_cap"]
    ELSE [c \in {x \in codes : mv[x] # NaN} |->
             IF mv[c] >= large_small_cutoff * 10000 THEN "large_cap" ELSE "small_cap"]

MergeMarketCapGroup(data, market_cap_data) ==
    [i \in 1..Len(data) |->
        [ts_code |-> data[i].ts_code,
         f |-> data[i].f,
         market_cap_group |->
             IF data[i].ts_code \in DOMAIN market_cap_data
             THEN market_cap_data[data[i].ts_code] ELSE NoGroup]]

----------------------------------------------------------------------------
(* FactorStandardizer *)

InGroup(rows, g) == SelectSeq(rows, LAMBDA r : r.market_cap_group = g)

FactorColumn(rows, c) == [i \in 1..Len(rows) |-> rows[i].f[c]]

\* ColumnStats with the population standard deviation (ddof=0)
ColumnStats_ddof0(values) ==
    IF Len(values) >= MinGroupSize
    THEN LET mean_val == mean(values)
             std_val == Sqrt(RDiv(SumSeq(SqDev(values, mean_val)), Len(values)))
         IN [ok |-> std_val > 0, mean_val |-> mean_val, std_val |-> std_val]
    ELSE [ok |-> FALSE, mean_val |-> 0, std_val |-> 0]

\* mean_val and std_val of one column of one group; ok says whether the
\* column is standardized at all
ColumnStats(values) ==
    IF Len(values) >= MinGroupSize
    THEN LET mean_val == mean(values)
             std_val == std_ddof1(values)
         IN [ok |-> std_val > 0, mean_val |-> mean_val, std_val |-> std_val]
    ELSE [ok |-> FALSE, mean_val |-> 0, std_val |-> 0]

StandardizedValue(x, st) ==
    IF notna(x) /\ st.ok THEN zscore(x, st.mean_val, st.std_val) ELSE x

GroupFactorStats(data, g) ==
    LET group_data == InGroup(data, g)
    IN IF Len(group_data) < MinGroupSize
       THEN <<>>
       ELSE [c \in FactorCols |-> ColumnStats(dropna(FactorColumn(group_data, c)))]

StandardizeByMarketCapGroup(data) ==
    LET large == GroupFactorStats(data, "large_cap")
        small == GroupFactorStats(data, "small_cap")
        StatsOf(g) == IF g = "large_cap" THEN large
                      ELSE IF g = "small_cap" THEN small ELSE <<>>
    IN [i \in 1..Len(data) |->
          LET st == StatsOf(data[i].market_cap_group)
          IN IF st = <<>> THEN data[i]
             ELSE [data[i] EXCEPT !.f =
                      [c \in FactorCols |-> StandardizedValue(data[i].f[c], st[c])]]]

\* FactorValues with a missing factor taken as 0
FactorValues_fillna0(row, factor_list) ==
    [k \in 1..Len(factor_list) |->
        IF notna(row.f[factor_list[k]]) THEN row.f[factor_list[k]] ELSE 0]

\* one row of _calculate_single_dimension_score
FactorValues(row, factor_list) ==
    dropna([k \in 1..Len(factor_list) |-> row.f[factor_list[k]]])

\* CalculateSingleDimensionScore with "> min_factors"
CalculateSingleDimensionScore_strict(row, factor_list, min_factors) ==
    LET factor_values == FactorValues(row, factor_list)
    IN IF Len(factor_values) > min_factors THEN mean(factor_values) ELSE NaN

CalculateSingleDimensionScore(row, factor_list, min_factors) ==
    LET factor_values == FactorValues(row, factor_list)
    IN IF Len(factor_values) >= min_factors THEN mean(factor_values) ELSE NaN

CalculateDimensionScores(sdata) ==
    [i \in 1..Len(sdata) |->
        [ts_code |-> sdata[i].ts_code,
         market_cap_group |-> sdata[i].market_cap_group,
         profitability_score |->
             CalculateSingleDimensionScore(sdata[i], profitability_factors,
                                           profitability_min_factors),
         growth_score |->
             CalculateSingleDimensionScore(sdata[i], growth_factors, growth_min_factors),
         safety_score |->
             CalculateSingleDimensionScore(sdata[i], safety_factors, safety_min_factors)]]

dimension_cols == <<"profitability_score", "growth_score", "safety_score">>

DimensionColumn(rows, d) == [i \in 1..Len(rows) |-> rows[i][d]]

GroupDimensionStats(data, g) ==
    LET group_data == InGroup(data, g)
    IN IF Len(group_data) < MinGroupSize
       THEN <<>>
       ELSE [k \in 1..Len(dimension_cols) |->
                ColumnStats(dropna(DimensionColumn(group_data, dimension_cols[k])))]

\* first loop of _calculate_final_scores: the dimension columns of final_data
StandardizeDimensions(data) ==
    LET large == GroupDimensionStats(data, "large_cap")
        small == GroupDimensionStats(data, "small_cap")
        StatsOf(g) == IF g = "large_cap" THEN large
                      ELSE IF g = "small_cap" THEN small ELSE <<>>
    IN [i \in 1..Len(data) |->
          LET st == StatsOf(data[i].market_cap_group)
          IN IF st = <<>> THEN data[i]
             ELSE [data[i] EXCEPT
                     !.profitability_score = StandardizedValue(@, st[1]),
                     !.growth_score = StandardizedValue(@, st[2]),
                     !.safety_score = StandardizedValue(@, st[3])]]

valid_dimensions(row) ==
    dropna(<<row.profitability_score, row.growth_score, row.safety_score>>)

\* "missing_dimensions <= max_missing_dimensions and len(valid_dimensions) > 0"
PassesDimensionGate(row) ==
    LET vd == valid_dimensions(row)
    IN Len(dimension_cols) - Len(vd) <= max_missing_dimensions /\ Len(vd) > 0

\* group_final_scores of one group: np.mean(valid_dimensions) of each row of
\* the group that passes the gate, in row order (valid_indices is parallel)
group_final_scores(data, g) ==
    LET valid == SelectSeq(InGroup(data, g), PassesDimensionGate)
    IN [i \in 1..Len(valid) |-> mean(valid_dimensions(valid[i]))]

\* scipy.stats.rankdata([-score ...], method='ordinal')
rankdata_ordinal_desc(scores) ==
    [i \in 1..Len(scores) |->
        1 + Cardinality({j \in 1..Len(scores) : scores[j] > scores[i]})
          + Cardinality({j \in 1..(i - 1) : scores[j] = scores[i]})]

\* what one pass of the second group loop appends to final_scores, final_ranks
GroupAppend(data, g) ==
    LET gfs == group_final_scores(data, g)
    IN IF Len(gfs) >= MinGroupSize
       THEN LET mean_final == mean(gfs)
                std_final == std_ddof1(gfs)
                standardized_final_scores ==
                    IF std_final > 0
                    THEN [i \in 1..Len(gfs) |-> zscore(gfs[i], mean_final, std_final)]
                    ELSE gfs
            IN [scores |-> standardized_final_scores,
                ranks |-> rankdata_ordinal_desc(standardized_final_scores)]
       ELSE [scores |-> gfs, ranks |-> [i \in 1..Len(gfs) |-> i]]

\* "for idx in final_data.index: if len(final_scores) <= idx: append(nan)"
\* followed by the slice [:len(final_data)]
PadToLength(s, n) ==
    SubSeq(IF Len(s) < n THEN s \o [i \in 1..(n - Len(s)) |-> NaN] ELSE s, 1, n)

CalculateFinalScores(dscores) ==
    LET fd == StandardizeDimensions(dscores)
        large == GroupAppend(fd, "large_cap")
        small == GroupAppend(fd, "small_cap")
        final_scores == PadToLength(large.scores \o small.scores, Len(fd))
        final_ranks == PadToLength(large.ranks \o small.ranks, Len(fd))
    IN [i \in 1..Len(fd) |->
          [ts_code |-> fd[i].ts_code,
           market_cap_group |-> fd[i].market_cap_group,
           profitability_score |-> fd[i].profitability_score,
           growth_score |-> fd[i].growth_score,
           safety_score |-> fd[i].safety_score,
           final_score |-> final_scores[i],
           final_rank |-> final_ranks[i]]]

\* FactorStandardizer.standardize_factors on an already merged table
StandardizeFactors(merged) ==
    CalculateFinalScores(CalculateDimensionScores(StandardizeByMarketCapGroup(merged)))

----------------------------------------------------------------------------
(* Inputs *)

MaxRows == 5

SmallCapMv == large_small_cutoff * 10000 - 1
LargeCapMv == large_small_cutoff * 10000

PositionInDimension(c) == IF c <= 6 THEN c ELSE IF c <= 11 THEN c - 6 ELSE c - 11
DimensionOf(c) == IF c <= 6 THEN 1 ELSE IF c <= 11 THEN 2 ELSE 3

\* A row choice is <<total_mv, counts, level>>: counts[d] is the number of
\* leading factors of dimension d the row carries, level sets its values.
FullCounts == <<6, 5, 4>>
PartialCounts == { <<4, 5, 4>>, <<4, 2, 3>>, <<3, 3, 2>>, <<6, 2, 2>> }

\* a stock with a market value and all fifteen factors
PlainChoices == {SmallCapMv, LargeCapMv} \X {FullCounts} \X {0, 1}

\* a stock with factors missing, or without any market-value row
OddChoices ==
    ({SmallCapMv, LargeCapMv} \X PartialCounts \X {0})
      \cup ({NaN} \X {FullCounts} \X {0})

\* the raw value of factor column c in row i: every third column folds the
\* level differently, so that the columns of a table are not all alike
RawFactorValue(i, level, c) ==
    IF c % 3 = 0
    THEN (((level * i) % 3) + (c % 2)) * Scale
    ELSE (level * i + (c % 2)) * Scale

MakeRow(i, counts, level) ==
    [ts_code |-> i,
     f |-> [c \in FactorCols |->
              IF PositionInDimension(c) <= counts[DimensionOf(c)]
              THEN RawFactorValue(i, level, c) ELSE NaN]]

\* tables of n stocks with a market value and every factor, in every order
\* of the groups
PlainTables(n) == [1..n -> PlainChoices]

\* tables of n stocks of which row k is odd
OddTables(n, k) ==
    { [i \in 1..n |-> IF i = k THEN o ELSE t[i]] :
        t \in [(1..n) \ {k} -> PlainChoices], o \in OddChoices }

----------------------------------------------------------------------------
(* The standardizer as a state machine:
   raw -> merged -> peer_standardized -> dimension_aggregated -> ranked.
   The tables on entry hold up to MaxRows stocks, at most one of them odd,
   in the first or the last row. *)

InputIs(n, t) ==
    /\ factor_data = [i \in 1..n |-> MakeRow(i, t[i][2], t[i][3])]
    /\ total_mv = [i \in 1..n |-> t[i][1]]

Init ==
    /\ pc = "raw"
    /\ \E n \in 1..MaxRows :
          \/ \E t \in PlainTables(n) : InputIs(n, t)
          \/ \E k \in {1, n} : \E t \in OddTables(n, k) : InputIs(n, t)
    /\ merged_data = <<>>
    /\ standardized_data = <<>>
    /\ dimension_scores = <<>>
    /\ final_data = <<>>
    /\ panel_row = <<>>
    /\ target_years = 0
    /\ growth = <<>>
    /\ financial_data = <<>>
    /\ cleaned_data = <<>>
    /\ profitability_result = <<>>
    /\ SafetyIdle
    /\ CompositeIdle
    /\ BatchIdle
    /\ GrowthFactorIdle
    /\ ApiIdle
    /\ UpdateIdle

Merge ==
    /\ pc = "raw"
    /\ merged_data' = MergeMarketCapGroup(factor_data,
                          GetMarketCapClassification(DOMAIN total_mv, total_mv))
    /\ pc' = "merged"
    /\ UNCHANGED <<factor_data, total_mv, standardized_data, dimension_scores, final_data, growth_vars, quarterly_vars, safety_vars, composite_vars, batch_vars, growth_factor_vars, api_vars, update_vars>>

PeerStandardize ==
    /\ pc = "merged"
    /\ standardized_data' = StandardizeByMarketCapGroup(merged_data)
    /\ pc' = "peer_standardized"
    /\ UNCHANGED <<factor_data, total_mv, merged_data, dimension_scores, final_data, growth_vars, quarterly_vars, safety_vars, composite_vars, batch_vars, growth_factor_vars, api_vars, update_vars>>

DimensionAggregate ==
    /\ pc = "peer_standardized"
    /\ dimension_scores' = CalculateDimensionScores(standardized_data)
    /\ pc' = "dimension_aggregated"
    /\ UNCHANGED <<factor_data, total_mv, merged_data, standardized_data, final_data, growth_vars, quarterly_vars, safety_vars, composite_vars, batch_vars, growth_factor_vars, api_vars, update_vars>>

FinalRank ==
    /\ pc = "dimension_aggregated"
    /\ final_data' = CalculateFinalScores(dimension_scores)
    /\ pc' = "ranked"
    /\ UNCHANGED <<factor_data, total_mv, merged_data, standardized_data, dimension_scores, growth_vars, quarterly_vars, safety_vars, composite_vars, batch_vars, growth_factor_vars, api_vars, update_vars>>

Next == Merge \/ PeerStandardize \/ DimensionAggregate \/ FinalRank

Spec == Init /\ [][Next]_vars

----------------------------------------------------------------------------
(* calculate_stable_growth *)

base_window_half_size == 2
min_periods_in_window == 3

\* series.iloc[a:b] for a < 0 and b <= 0, on a series without missing values
\* (0-based, end-exclusive, a negative index counts from the end; the end
\* index 0 is position 0, so the slice is empty)
ILocSlice(series, a, b) ==
    LET start == Len(series) + a
        stop == IF b < 0 THEN Len(series) + b ELSE 0
    IN IF stop > start THEN SubSeq(series, start + 1, stop) ELSE <<>>

\* the window tried at one shift: found says whether the loop breaks here
BaseWindowAt(series, years, half_size, min_periods, shift) ==
    LET base_period_center_idx == -(years * 4) - 1 - shift
        window_start_idx == base_period_center_idx - half_size
        window_end_idx == base_period_center_idx + half_size + 1
        in_range == window_start_idx >= -Len(series) /\ window_end_idx <= 0
        base_window == IF in_range
                       THEN ILocSlice(series, window_start_idx, window_end_idx)
                       ELSE <<>>
    IN [found |-> in_range /\ Len(base_window) >= min_periods,
        shift |-> shift,
        base_window |-> base_window,
        \* get_loc(latest_window.index[-1]) - get_loc(base_window.index[-1])
        quarters |-> (Len(series) - 1) - (Len(series) + window_end_idx - 1)]

\* "for shift in range(6)": the first shift whose window is found
RECURSIVE FindBaseWindow(_, _, _, _, _)
FindBaseWindow(series, years, half_size, min_periods, shift) ==
    IF shift >= 6 THEN [found |-> FALSE]
    ELSE LET w == BaseWindowAt(series, years, half_size, min_periods, shift)
         IN IF w.found THEN w
            ELSE FindBaseWindow(series, years, half_size, min_periods, shift + 1)

\* CalculateStableGrowthWith with ">= 0" for "> 0"
CalculateStableGrowthWith_nonneg(r, years, half_size, min_periods) ==
    LET series == dropna(r)
    IN IF Len(series) < 3 THEN [kind |-> "nan"]
       ELSE LET latest_avg == mean(SubSeq(series, Len(series) - 2, Len(series)))
                w == FindBaseWindow(series, years, half_size, min_periods, 0)
            IN IF ~w.found THEN [kind |-> "nan"]
               ELSE LET base_avg == mean(w.base_window)
                    IN IF base_avg >= 0 /\ latest_avg >= 0
                       THEN [kind |-> "cagr",
                             latest_avg |-> latest_avg,
                             base_avg |-> base_avg,
                             actual_quarters |-> IF w.quarters < 4 THEN 4 ELSE w.quarters,
                             shift |-> w.shift]
                       ELSE [kind |-> "sentinel", value |-> -10 * Scale, shift |-> w.shift]

\* The result is a record: kind "nan" (np.nan), kind "sentinel" with the
\* returned value, or kind "cagr" with the operands of
\* (latest_avg / base_avg) ** (1 / actual_years) - 1, the years in quarters.
CalculateStableGrowthWith(r, years, half_size, min_periods) ==
    LET series == dropna(r)
    IN IF Len(series) < 3 THEN [kind |-> "nan"]
       ELSE LET latest_avg == mean(SubSeq(series, Len(series) - 2, Len(series)))
                w == FindBaseWindow(series, years, half_size, min_periods, 0)
            IN IF ~w.found THEN [kind |-> "nan"]
               ELSE LET base_avg == mean(w.base_window)
                    IN IF base_avg > 0 /\ latest_avg > 0
                       THEN [kind |-> "cagr",
                             latest_avg |-> latest_avg,
                             base_avg |-> base_avg,
                             actual_quarters |-> IF w.quarters < 4 THEN 4 ELSE w.quarters,
                             shift |-> w.shift]
                       ELSE [kind |-> "sentinel", value |-> -10 * Scale, shift |-> w.shift]

\* variant of calculate_stable_growth with a base window of 3 quarters
calculate_stable_growth_narrow(r, years) ==
    CalculateStableGrowthWith(r, years, 1, min_periods_in_window)

calculate_stable_growth(r, years) ==
    CalculateStableGrowthWith(r, years, base_window_half_size, min_periods_in_window)

----------------------------------------------------------------------------
(* Inputs of the growth engine: the quarterly values of one stock, oldest
   first, some of them missing, optionally followed by a year of ones *)

MaxRowLen == 7

QuarterValues == {NaN, -Scale, 0, Scale}
TargetYears == {1, 2}

Ones(n) == [i \in 1..n |-> Scale]

\* rows of n quarters followed by p ones
GrowthRows(n, p) == { x \o Ones(p) : x \in [1..n -> QuarterValues] }

InitGrowth ==
    /\ pc = "row"
    /\ \E n \in 0..MaxRowLen, p \in {0, 4} : panel_row \in GrowthRows(n, p)
    /\ target_years \in TargetYears
    /\ growth = <<>>
    /\ factor_data = <<>>
    /\ total_mv = <<>>
    /\ merged_data = <<>>
    /\ standardized_data = <<>>
    /\ dimension_scores = <<>>
    /\ final_data = <<>>
    /\ financial_data = <<>>
    /\ cleaned_data = <<>>
    /\ profitability_result = <<>>
    /\ SafetyIdle
    /\ CompositeIdle
    /\ BatchIdle
    /\ GrowthFactorIdle
    /\ ApiIdle
    /\ UpdateIdle

StableGrowth ==
    /\ pc = "row"
    /\ growth' = calculate_stable_growth(panel_row, target_years)
    /\ pc' = "growth"
    /\ UNCHANGED <<panel_row, target_years, std_vars, quarterly_vars, safety_vars, composite_vars, batch_vars, growth_factor_vars, api_vars, update_vars>>

NextGrowth == StableGrowth

SpecGrowth == InitGrowth /\ [][NextGrowth]_vars


----------------------------------------------------------------------------
(* Quarterly financial data: DataPreprocessor.get_quarterly_data and
   ProfitabilityCalculator.calculate_factors.  A record of the quarterly
   table is [ts_code, end_date, q_roe, roa_yearly, grossprofit_margin, fcff,
   gross_margin, daa, working_capital, total_assets].                      *)

indicators == <<"q_roe", "roa_yearly", "grossprofit_margin", "fcff",
                "gross_margin", "daa", "working_capital", "total_assets">>

\* get_dynamic_profitability_window: 20 quarters
quarters == 20

\* the factor rule "notna().sum() >= 2" and the loop's "len(stock_data) < 2"
MinQuarters == 2

\* quantile levels of _winsorize_series, in hundredths
lower == 1
upper == 99

RECURSIVE InsertValue(_, _)
InsertValue(sorted, x) ==
    IF sorted = <<>> THEN <<x>>
    ELSE IF x <= Head(sorted) THEN <<x>> \o sorted
         ELSE <<Head(sorted)>> \o InsertValue(Tail(sorted), x)

RECURSIVE SortValues(_)
SortValues(s) == IF s = <<>> THEN <<>> ELSE InsertValue(SortValues(Tail(s)), Head(s))

\* Series.quantile(q) with linear interpolation, q in hundredths, over the
\* non-missing values
quantile(values, q) ==
    LET x == SortValues(dropna(values))
        pos == (Len(x) - 1) * q
        lo == pos \div 100
        frac == pos % 100
    IN IF frac = 0 THEN x[lo + 1]
       ELSE x[lo + 1] + RDiv(frac * (x[lo + 2] - x[lo + 1]), 100)

clip(x, lower_bound, upper_bound) ==
    IF x = NaN THEN NaN
    ELSE IF x < lower_bound THEN lower_bound
         ELSE IF x > upper_bound THEN upper_bound ELSE x

\* _winsorize_series on the indicator's column of the whole table
WinsorizeSeries(series) ==
    IF dropna(series) = <<>> THEN series
    ELSE LET lower_bound == quantile(series, lower)
             upper_bound == quantile(series, upper)
         IN [i \in 1..Len(series) |-> clip(series[i], lower_bound, upper_bound)]

SameKey(a, b) == a.ts_code = b.ts_code /\ a.end_date = b.end_date

\* drop_duplicates(subset=['ts_code', 'end_date'], keep='last')
DropDuplicatesKeepLast(data) ==
    LET keep(i) == \A j \in (i + 1)..Len(data) : ~SameKey(data[i], data[j])
        kept == {i \in 1..Len(data) : keep(i)}
        nth(k) == CHOOSE i \in kept : Cardinality({j \in kept : j <= i}) = k
    IN [k \in 1..Cardinality(kept) |-> data[nth(k)]]

Column(data, indicator) == [i \in 1..Len(data) |-> data[i][indicator]]

RECURSIVE WinsorizeIndicators(_, _)
WinsorizeIndicators(data, k) ==
    IF k > Len(indicators) THEN data
    ELSE LET col == WinsorizeSeries(Column(data, indicators[k]))
         IN WinsorizeIndicators(
                [i \in 1..Len(data) |-> [data[i] EXCEPT ![indicators[k]] = col[i]]],
                k + 1)

CleanFinancialData(data) == WinsorizeIndicators(DropDuplicatesKeepLast(data), 1)

KeyLessEq(a, b) ==
    \/ a.ts_code < b.ts_code
    \/ a.ts_code = b.ts_code /\ a.end_date <= b.end_date

RECURSIVE InsertRecord(_, _)
InsertRecord(sorted, r) ==
    IF sorted = <<>> THEN <<r>>
    ELSE IF KeyLessEq(r, Head(sorted)) THEN <<r>> \o sorted
         ELSE <<Head(sorted)>> \o InsertRecord(Tail(sorted), r)

RECURSIVE SortValuesByKey(_)
SortValuesByKey(data) ==
    IF data = <<>> THEN <<>>
    ELSE InsertRecord(SortValuesByKey(Tail(data)), Head(data))

\* the tail of get_quarterly_data: empty stays empty, otherwise clean, sort
GetQuarterlyData(data) ==
    IF data = <<>> THEN <<>> ELSE SortValuesByKey(CleanFinancialData(data))

TailRows(data, n) ==
    IF Len(data) <= n THEN data ELSE SubSeq(data, Len(data) - n + 1, Len(data))

Ratio(x, y) == IF x = NaN \/ y = NaN THEN NaN ELSE RDiv(x * Scale, y)

Diff(series) ==
    [i \in 1..Len(series) |->
        IF i = 1 \/ series[i] = NaN \/ series[i - 1] = NaN THEN NaN
        ELSE series[i] - series[i - 1]]

\* "if col.notna().sum() >= 2: factor = col.mean()", absent factor = NaN
FactorMean(series) ==
    IF Len(dropna(series)) >= MinQuarters THEN mean(dropna(series)) ELSE NaN

CashQuality(stock_data) ==
    LET stock_data_sorted == SortValuesByKey(stock_data)
        wc_change == Diff(Column(stock_data_sorted, "working_capital"))
    IN [i \in 1..Len(stock_data_sorted) |->
           IF stock_data_sorted[i].daa = NaN \/ wc_change[i] = NaN THEN NaN
           ELSE Ratio(stock_data_sorted[i].daa - wc_change[i],
                      stock_data_sorted[i].total_assets)]

\* variant: the ratio factors as the ratio of the two fields' averages
StockFactorValues_ratio_of_means(stock_code, all_stock_data) ==
    LET stock_data == TailRows(all_stock_data, quarters)
        total_assets == Column(stock_data, "total_assets")
        fcff == Column(stock_data, "fcff")
        gross_margin == Column(stock_data, "gross_margin")
        OfMeans(x, y) ==
            IF Len(dropna(x)) >= MinQuarters /\ Len(dropna(y)) >= MinQuarters
            THEN Ratio(mean(dropna(x)), mean(dropna(y))) ELSE NaN
    IN [ts_code |-> stock_code,
        ROE |-> FactorMean(Column(stock_data, "q_roe")),
        ROA |-> FactorMean(Column(stock_data, "roa_yearly")),
        gross_profit_margin |-> FactorMean(Column(stock_data, "grossprofit_margin")),
        fcff_asset_ratio |-> OfMeans(fcff, total_assets),
        gross_asset_ratio |-> OfMeans(gross_margin, total_assets),
        cash_quality |-> FactorMean(CashQuality(stock_data))]

StockFactorValues(stock_code, all_stock_data) ==
    LET stock_data == TailRows(all_stock_data, quarters)
        total_assets == Column(stock_data, "total_assets")
        fcff == Column(stock_data, "fcff")
        gross_margin == Column(stock_data, "gross_margin")
    IN [ts_code |-> stock_code,
        ROE |-> FactorMean(Column(stock_data, "q_roe")),
        ROA |-> FactorMean(Column(stock_data, "roa_yearly")),
        gross_profit_margin |-> FactorMean(Column(stock_data, "grossprofit_margin")),
        fcff_asset_ratio |->
            FactorMean([i \in 1..Len(stock_data) |-> Ratio(fcff[i], total_assets[i])]),
        gross_asset_ratio |->
            FactorMean([i \in 1..Len(stock_data) |-> Ratio(gross_margin[i], total_assets[i])]),
        cash_quality |-> FactorMean(CashQuality(stock_data))]

StockData(data, stock_code) == SelectSeq(data, LAMBDA r : r.ts_code = stock_code)

RECURSIVE ProfitabilityLoop(_, _)
ProfitabilityLoop(data, stock_codes) ==
    IF stock_codes = <<>> THEN <<>>
    ELSE LET stock_code == Head(stock_codes)
             stock_data == StockData(data, stock_code)
             rest == ProfitabilityLoop(data, Tail(stock_codes))
         IN IF Len(stock_data) < MinQuarters THEN rest
            ELSE <<StockFactorValues(stock_code, stock_data)>> \o rest

\* ProfitabilityCalculator.calculate_factors on the preprocessed table
CalculateProfitabilityFactors(data, stock_codes) ==
    IF data = <<>> THEN <<>> ELSE ProfitabilityLoop(data, stock_codes)

(* Inputs: two stocks; a stock's reports are quarters 1..n, or the last
   report is filed twice for the same quarter. *)

MaxQuarters == 3

StockCodes == <<1, 2>>

ReportKinds(stock_code) ==
    IF stock_code = 1
    THEN { <<Scale, 2 * Scale, 4 * Scale>>, <<5 * Scale, Scale, 2 * Scale>>,
           <<NaN, 3 * Scale, 4 * Scale>>, <<3 * Scale, NaN, NaN>> }
    ELSE { <<2 * Scale, 2 * Scale, 3 * Scale>>, <<9 * Scale, 9 * Scale, 8 * Scale>> }

Report(stock_code, date, kind) ==
    [ts_code |-> stock_code, end_date |-> date,
     q_roe |-> kind[1], roa_yearly |-> kind[1], grossprofit_margin |-> kind[1],
     working_capital |-> kind[1],
     fcff |-> kind[2], gross_margin |-> kind[2], daa |-> kind[2],
     total_assets |-> kind[3]]

Reports(stock_code) ==
    UNION { { [i \in 1..n |-> Report(stock_code, IF refiled /\ i = n THEN n - 1 ELSE i, k[i])]
              : k \in [1..n -> ReportKinds(stock_code)] }
            : n \in 0..MaxQuarters,
              refiled \in IF stock_code = 1 THEN {FALSE, TRUE} ELSE {FALSE} }

InitQuarterly ==
    /\ pc = "fetched"
    /\ \E a \in Reports(1), b \in Reports(2) : financial_data = a \o b
    /\ cleaned_data = <<>>
    /\ profitability_result = <<>>
    /\ factor_data = <<>>
    /\ total_mv = <<>>
    /\ merged_data = <<>>
    /\ standardized_data = <<>>
    /\ dimension_scores = <<>>
    /\ final_data = <<>>
    /\ panel_row = <<>>
    /\ target_years = 0
    /\ growth = <<>>
    /\ SafetyIdle
    /\ CompositeIdle
    /\ BatchIdle
    /\ GrowthFactorIdle
    /\ ApiIdle
    /\ UpdateIdle

QuarterlyData ==
    /\ pc = "fetched"
    /\ cleaned_data' = GetQuarterlyData(financial_data)
    /\ pc' = "cleaned"
    /\ UNCHANGED <<financial_data, profitability_result, std_vars, growth_vars, safety_vars, composite_vars, batch_vars, growth_factor_vars, api_vars, update_vars>>

ProfitabilityFactors ==
    /\ pc = "cleaned"
    /\ profitability_result' = CalculateProfitabilityFactors(cleaned_data, StockCodes)
    /\ pc' = "profitability"
    /\ UNCHANGED <<financial_data, cleaned_data, std_vars, growth_vars, safety_vars, composite_vars, batch_vars, growth_factor_vars, api_vars, update_vars>>

NextQuarterly == QuarterlyData \/ ProfitabilityFactors

SpecQuarterly == InitQuarterly /\ [][NextQuarterly]_vars

----------------------------------------------------------------------------
(* Vocabulary of the properties *)

Ranked == pc = "ranked"
Aggregated == pc \in {"dimension_aggregated", "ranked"}
PeerStandardized == pc \in {"peer_standardized", "dimension_aggregated", "ranked"}

Rows == 1..Len(factor_data)
Dimensions == 1..3

DimensionRange(d) == IF d = 1 THEN 1..6 ELSE IF d = 2 THEN 7..11 ELSE 12..15
DimensionMin(d) == <<profitability_min_factors, growth_min_factors, safety_min_factors>>[d]
ScoreOf(r, d) == r[dimension_cols[d]]

Present(row, d) == {c \in DimensionRange(d) : row.f[c] # NaN}

RECURSIVE SumOver(_, _)
SumOver(row, cols) ==
    IF cols = {} THEN 0
    ELSE LET c == CHOOSE x \in cols : TRUE
         IN row.f[c] + SumOver(row, cols \ {c})

\* the plain mean of the factors of dimension d that the row carries
PlainMean(row, d) == RDiv(SumOver(row, Present(row, d)), Cardinality(Present(row, d)))

Members(data, g) == {i \in 1..Len(data) : data[i].market_cap_group = g}
IsPeerGroup(g) == g \in {"large_cap", "small_cap"}
Scored(r) == r.final_score # NaN
DefinedDimensions(r) == {d \in Dimensions : ScoreOf(r, d) # NaN}

Abs(x) == IF x < 0 THEN -x ELSE x

----------------------------------------------------------------------------
(* C1: in the result, within each peer group the ranks of the N rows that
   carry a final score are exactly 1..N, and the row ranked 1 has the
   group's maximum final score. *)
C1_RanksArePermutation ==
    Ranked =>
      \A g \in {"large_cap", "small_cap"} :
        LET scored == {i \in Members(final_data, g) : Scored(final_data[i])}
        IN /\ \A k \in 1..Cardinality(scored) :
                Cardinality({i \in scored : final_data[i].final_rank = k}) = 1
           /\ \A i \in scored :
                final_data[i].final_rank = 1 =>
                  \A j \in scored : final_data[j].final_score <= final_data[i].final_score

(* C2: a dimension score is defined exactly when the number of the
   dimension's factors the stock carries reaches the dimension's minimum
   (4 of 6, 3 of 5, 3 of 4). *)
C2_DimensionGate ==
    Aggregated =>
      \A i \in Rows : \A d \in Dimensions :
        (ScoreOf(dimension_scores[i], d) # NaN)
          <=> (Cardinality(Present(merged_data[i], d)) >= DimensionMin(d))

C2_Witness ==
    /\ Aggregated
    /\ \E i \in Rows : \E d, e \in Dimensions :
          /\ Cardinality(Present(merged_data[i], d)) = DimensionMin(d)
          /\ ScoreOf(dimension_scores[i], d) # NaN
          /\ Cardinality(Present(merged_data[i], e)) = DimensionMin(e) - 1
          /\ ScoreOf(dimension_scores[i], e) = NaN

(* C3: a stock of a peer group has a final score and a rank exactly when at
   most one of its three standardized dimension scores is missing. *)
C3_FinalGate ==
    Ranked =>
      \A i \in Rows :
        IsPeerGroup(final_data[i].market_cap_group) =>
          ((final_data[i].final_score # NaN /\ final_data[i].final_rank # NaN)
             <=> Cardinality(DefinedDimensions(final_data[i])) >= 2)

\* the non-missing values of column c over the rows of group g, in row order
GroupColumn(data, g, c) == dropna(FactorColumn(InGroup(data, g), c))

\* "within floating tolerance": one hundredth
Tolerance == Scale \div 100

MeanZeroStdOne(values) ==
    /\ Abs(mean(values)) <= Tolerance
    /\ Abs(std_ddof1(values) - Scale) <= Tolerance

\* the standardized values of a column are an increasing image of the raw ones
SameOrder(raw, out) ==
    \A i, j \in 1..Len(raw) : raw[i] < raw[j] => out[i] < out[j]

(* C4 as stated: in a peer group of at least 5 members every factor column,
   also one that fewer than 5 members carry, is replaced by its Z-scores, so
   that its non-missing values have mean 0 and sample std 1.  (A column
   whose values are all equal has no Z-score and is left aside here.) *)
C4_EveryColumnStandardized ==
    PeerStandardized =>
      \A g \in {"large_cap", "small_cap"} : \A c \in FactorCols :
        LET raw == GroupColumn(merged_data, g, c)
        IN (Cardinality(Members(merged_data, g)) >= 5 /\ Len(raw) >= 2
              /\ \E i, j \in 1..Len(raw) : raw[i] # raw[j])
             => MeanZeroStdOne(GroupColumn(standardized_data, g, c))

(* C4 amended: in a peer group of at least 5 members, a factor column that
   at least 5 members carry and whose values are not all equal is replaced
   by its Z-scores (mean 0, sample std 1, order kept, missing values stay
   missing); a column that fewer than 5 members carry is left unchanged. *)
C4_ColumnsOfFiveStandardized ==
    PeerStandardized =>
      \A g \in {"large_cap", "small_cap"} : \A c \in FactorCols :
        LET raw == GroupColumn(merged_data, g, c)
            out == GroupColumn(standardized_data, g, c)
        IN Cardinality(Members(merged_data, g)) >= 5 =>
             /\ Len(out) = Len(raw)
             /\ \A i \in Members(merged_data, g) :
                  (merged_data[i].f[c] = NaN) <=> (standardized_data[i].f[c] = NaN)
             /\ (Len(raw) >= 5 /\ \E i, j \in 1..Len(raw) : raw[i] # raw[j])
                  => (MeanZeroStdOne(out) /\ SameOrder(raw, out))
             /\ Len(raw) < 5 => out = raw

C4_Witness ==
    /\ PeerStandardized
    /\ \E g \in {"large_cap", "small_cap"} : \E c, e \in FactorCols :
          /\ Cardinality(Members(merged_data, g)) >= 5
          /\ Len(GroupColumn(merged_data, g, c)) >= 5
          /\ GroupColumn(standardized_data, g, c) # GroupColumn(merged_data, g, c)
          /\ Len(GroupColumn(merged_data, g, e)) = 4

(* C5: in a peer group of exactly 4 members nothing is Z-scored: factor
   values stay as they are, dimension scores are the plain means of the raw
   factor values, and the final score of a member is the mean of its own
   unstandardized dimension scores. *)
C5_GroupOfFourPassesThrough ==
    Ranked =>
      \A g \in {"large_cap", "small_cap"} :
        Cardinality(Members(merged_data, g)) = 4 =>
          \A i \in Members(merged_data, g) :
            LET row == merged_data[i]
                dims == {d \in Dimensions :
                            Cardinality(Present(row, d)) >= DimensionMin(d)}
                total == SumSeq([d \in Dimensions |->
                            IF d \in dims THEN PlainMean(row, d) ELSE 0])
            IN /\ standardized_data[i].f = row.f
               /\ \A d \in Dimensions :
                    ScoreOf(final_data[i], d) =
                        IF d \in dims THEN PlainMean(row, d) ELSE NaN
               /\ final_data[i].final_score =
                    IF Cardinality(dims) >= 2
                    THEN RDiv(total, Cardinality(dims)) ELSE NaN

(* C7: what the result shows for the stocks of one peer group (standardized
   factors, dimension scores, final score, rank) is what the pipeline yields
   for that group alone: the stocks of the other group, their values, their
   number and their positions do not matter. *)
C7_PeerGroupScoped ==
    Ranked =>
      \A g \in {"large_cap", "small_cap"} :
        LET alone == InGroup(merged_data, g)
        IN /\ InGroup(standardized_data, g) = StandardizeByMarketCapGroup(alone)
           /\ InGroup(final_data, g) = StandardizeFactors(alone)

(* C8: a dimension score is the sum of the stock's non-missing factors of
   the dimension divided by their number. *)
C8_MeanOverPresentFactors ==
    Aggregated =>
      \A i \in Rows : \A d \in Dimensions :
        LET row == standardized_data[i]
        IN ScoreOf(dimension_scores[i], d) # NaN =>
             /\ Present(row, d) # {}
             /\ ScoreOf(dimension_scores[i], d) = PlainMean(row, d)

C8_Witness ==
    /\ Aggregated
    /\ \E i \in Rows : \E d \in Dimensions :
          /\ ScoreOf(dimension_scores[i], d) # NaN
          /\ Present(standardized_data[i], d) # DimensionRange(d)
          /\ SumOver(standardized_data[i], Present(standardized_data[i], d)) # 0

(* C10: every stock that carries a final score or a rank is in exactly one
   of large_cap and small_cap; a stock without a market-value observation,
   left without a group by the merge, gets neither. *)
C10_ScoredStockHasPeerGroup ==
    Ranked =>
      \A i \in Rows :
        (final_data[i].final_score # NaN \/ final_data[i].final_rank # NaN)
          => IsPeerGroup(final_data[i].market_cap_group)

----------------------------------------------------------------------------
(* Vocabulary of the growth properties *)

GrowthDone == pc = "growth"
Series == dropna(panel_row)
LatestSum == SumSeq(SubSeq(Series, Len(Series) - 2, Len(Series)))

\* the five-quarter window centred 4 * target_years + 1 + shift quarters
\* before the end, as positions of Series counted from its end
WindowFits(shift) == Len(Series) >= 4 * target_years + 1 + shift + 2
WindowSum(shift) ==
    LET last == Len(Series) - (4 * target_years + 1 + shift) + 3
    IN SumSeq(SubSeq(Series, last - 4, last))
BaseFound == Len(Series) >= 3 /\ \E shift \in 0..5 : WindowFits(shift)
FirstShift == CHOOSE shift \in 0..5 :
                 WindowFits(shift) /\ \A t \in 0..(shift - 1) : ~WindowFits(t)

(* C6: whenever a base window is found and the latest-window mean or the
   base-window mean is not strictly positive, calculate_stable_growth
   returns exactly -10; the compound growth formula is used only when both
   means are strictly positive. *)
C6_SentinelUnlessBothPositive ==
    GrowthDone =>
      /\ (BaseFound /\ (LatestSum <= 0 \/ WindowSum(FirstShift) <= 0))
           => (growth.kind = "sentinel" /\ growth.value = -10 * Scale)
      /\ growth.kind = "cagr"
           => (BaseFound /\ LatestSum > 0 /\ WindowSum(FirstShift) > 0)

C6_Witness ==
    /\ GrowthDone
    /\ BaseFound
    /\ LatestSum < 0
    /\ WindowSum(FirstShift) > 0
    /\ growth.kind = "sentinel"
    /\ growth.value = -10 * Scale

----------------------------------------------------------------------------
(* Quarterly vocabulary *)

ProfitabilityDone == pc = "profitability"

FactorRow(result, stock_code) ==
    IF \E i \in 1..Len(result) : result[i].ts_code = stock_code
    THEN result[CHOOSE i \in 1..Len(result) : result[i].ts_code = stock_code]
    ELSE <<>>

\* the run's table with another stock's reports in place of stock_code's peer
OtherRuns(stock_code) ==
    IF stock_code = 1
    THEN { StockData(financial_data, 1) \o b : b \in Reports(2) }
    ELSE { a \o StockData(financial_data, 2) : a \in Reports(1) }

\* C9: the factor values computed for a stock depend only on that stock's own
\* reports: in every run that differs only in the other stock's financial
\* records the stock's row of raw profitability factors is the same.
C9_NoCrossStockDependency ==
    ProfitabilityDone =>
        \A n \in 1..Len(StockCodes) : \A other \in OtherRuns(StockCodes[n]) :
            FactorRow(CalculateProfitabilityFactors(GetQuarterlyData(other), StockCodes),
                      StockCodes[n])
                = FactorRow(profitability_result, StockCodes[n])

----------------------------------------------------------------------------
(* Ranking and write-back of the final scores *)

\* the rows of group g that pass the dimension gate, as row numbers
Retained(data, g) == {i \in Members(data, g) : PassesDimensionGate(data[i])}

(* C11: in a group with fewer than 5 retained stocks the ranks follow the
   unstandardized final score in descending order: of two retained stocks
   of the group the one with the higher final score has the lower rank. *)
C11_SmallGroupRankedByScore ==
    Ranked =>
      \A g \in {"large_cap", "small_cap"} :
        Cardinality(Retained(final_data, g)) < 5 =>
          \A a, b \in Retained(final_data, g) :
            (Scored(final_data[a]) /\ Scored(final_data[b])
               /\ final_data[a].final_score > final_data[b].final_score)
              => final_data[a].final_rank < final_data[b].final_rank

\* what _calculate_final_scores computed from row i's own dimension scores:
\* the entry of its group's score and rank lists at the row's place among
\* the retained rows of the group, NaN for a row that is not retained
OwnScoreAndRank(data, i) ==
    LET g == data[i].market_cap_group
    IN IF IsPeerGroup(g) /\ PassesDimensionGate(data[i])
       THEN LET k == Cardinality({j \in Retained(data, g) : j <= i})
                computed == GroupAppend(data, g)
            IN <<computed.scores[k], computed.ranks[k]>>
       ELSE <<NaN, NaN>>

(* C19: the final score and rank written into a stock's row are the ones
   computed from that row's own dimension scores, for every row order. *)
C19_ScoreWrittenToOwnRow ==
    Ranked =>
      \A i \in Rows :
        <<final_data[i].final_score, final_data[i].final_rank>>
            = OwnScoreAndRank(final_data, i)

----------------------------------------------------------------------------
(* Safety dimension: SafetyCalculator.calculate_factors for one stock.
   market_data holds the daily rows [trade_date, pct_chg] of the stock and
   of the benchmark, safety_financial_data the stock's quarterly rows,
   market_value_data the stock's total_mv rows.  The result row is
   [ts_code, low_beta, low_idiosyncratic_risk, low_debt_ratio, altman_z],
   NaN for a factor that is not emitted. *)

safety_indicators == <<"debt_to_assets", "working_capital", "retained_earnings",
                       "ebit", "total_revenue", "total_assets">>

\* "len(stock_returns) < 50 or len(benchmark_returns) < 50"
MinReturns == 50

\* "len(stock_returns) < 30" after the missing pairs are dropped
MinValidPairs == 30

\* stock_data.tail(4) of _calculate_debt_ratio
DebtQuarters == 4

\* np.sqrt(252)
TradingDays == 252
SqrtTradingDays == Sqrt(TradingDays * Scale * Scale)

\* product of two fixed-point reals
FMul(a, b) == RDiv(a * b, Scale)

RECURSIVE WinsorizeColumns(_, _, _)
WinsorizeColumns(data, cols, k) ==
    IF k > Len(cols) THEN data
    ELSE LET col == WinsorizeSeries(Column(data, cols[k]))
         IN WinsorizeColumns(
                [i \in 1..Len(data) |-> [data[i] EXCEPT ![cols[k]] = col[i]]],
                cols, k + 1)

\* _get_financial_data_for_safety: get_quarterly_data with the safety indicators
GetFinancialDataForSafety(data) ==
    IF data = <<>> THEN <<>>
    ELSE SortValuesByKey(
             WinsorizeColumns(DropDuplicatesKeepLast(data), safety_indicators, 1))

PctChg(rows) == [i \in 1..Len(rows) |-> rows[i].pct_chg]

\* a[-n:]
LastN(a, n) == SubSeq(a, Len(a) - n + 1, Len(a))

Min(a, b) == IF a <= b THEN a ELSE b

\* the pairs left by valid_idx = ~(isnan(stock) | isnan(benchmark))
ValidPairs(stock_returns, benchmark_returns) ==
    SelectSeq([i \in 1..Len(stock_returns) |-> <<stock_returns[i], benchmark_returns[i]>>],
              LAMBDA pair : pair[1] # NaN /\ pair[2] # NaN)

\* np.cov(x, y)[0, 1]
Covariance(x, y) ==
    LET mx == mean(x)
        my == mean(y)
    IN RDiv(SumSeq([i \in 1..Len(x) |-> FMul(x[i] - mx, y[i] - my)]), Len(x) - 1)

NoRiskFactors == [low_beta |-> NaN, low_idiosyncratic_risk |-> NaN]

\* variant of RegressOnBenchmark where beta is 0 when the variance is 0
RegressOnBenchmark_zero_beta(x, y) ==
    LET covariance == Covariance(x, y)
        market_variance == Covariance(y, y)
        beta == IF market_variance > 0 THEN RDiv(covariance * Scale, market_variance) ELSE 0
        alpha == mean(x) - FMul(beta, mean(y))
        residuals == [i \in 1..Len(x) |-> x[i] - (alpha + FMul(beta, y[i]))]
        idiosyncratic_risk == FMul(std_ddof1(residuals), SqrtTradingDays)
    IN [low_beta |-> IF market_variance > 0 THEN -beta ELSE NaN,
        low_idiosyncratic_risk |-> -idiosyncratic_risk]

\* the try block of _calculate_market_risk_factors on the paired returns;
\* with market_variance = 0 beta is unbound, the exception is caught and
\* risk_factors stays empty
RegressOnBenchmark(x, y) ==
    LET covariance == Covariance(x, y)
        market_variance == Covariance(y, y)
    IN IF market_variance > 0
       THEN LET beta == RDiv(covariance * Scale, market_variance)
                alpha == mean(x) - FMul(beta, mean(y))
                residuals == [i \in 1..Len(x) |-> x[i] - (alpha + FMul(beta, y[i]))]
                idiosyncratic_risk == FMul(std_ddof1(residuals), SqrtTradingDays)
            IN [low_beta |-> -beta, low_idiosyncratic_risk |-> -idiosyncratic_risk]
       ELSE NoRiskFactors

\* _calculate_market_risk_factors
CalculateMarketRiskFactors(stock_rows, benchmark_rows) ==
    LET stock_returns == PctChg(stock_rows)
        benchmark_returns == PctChg(benchmark_rows)
    IN IF Len(stock_returns) < MinReturns \/ Len(benchmark_returns) < MinReturns
       THEN NoRiskFactors
       ELSE LET min_length == Min(Len(stock_returns), Len(benchmark_returns))
                pairs == ValidPairs(LastN(stock_returns, min_length),
                                    LastN(benchmark_returns, min_length))
            IN IF Len(pairs) < MinValidPairs THEN NoRiskFactors
               ELSE RegressOnBenchmark([i \in 1..Len(pairs) |-> pairs[i][1]],
                                       [i \in 1..Len(pairs) |-> pairs[i][2]])

\* _calculate_debt_ratio: None is NaN
CalculateDebtRatio(stock_data) ==
    IF stock_data = <<>> THEN NaN
    ELSE LET values == dropna(Column(TailRows(stock_data, DebtQuarters), "debt_to_assets"))
         IN IF values = <<>> THEN NaN ELSE mean(values)

\* x / y for a divisor of either sign
SignedRatio(x, y) == IF y < 0 THEN Ratio(-x, -y) ELSE Ratio(x, y)

\* weight * (numerator / denominator), the weight in tenths
WeightedRatio(tenths, numerator, denominator) ==
    RDiv(tenths * SignedRatio(numerator, denominator), 10)

\* CalculateAltmanZ with total_debt taken as half of total_assets
CalculateAltmanZ_halfdebt(stock_financial, stock_market) ==
    IF stock_financial = <<>> THEN NaN
    ELSE LET latest_financial == stock_financial[Len(stock_financial)]
             total_assets == latest_financial.total_assets
             market_value == IF stock_market # <<>>
                             THEN stock_market[Len(stock_market)] ELSE NaN
             total_debt == IF total_assets = NaN THEN NaN ELSE RDiv(total_assets * 5, 10)
             term(tenths, numerator) ==
                 IF numerator # NaN THEN WeightedRatio(tenths, numerator, total_assets) ELSE 0
         IN IF total_assets = NaN \/ total_assets = 0 \/ total_debt = 0 THEN NaN
            ELSE term(12, latest_financial.working_capital)
                   + term(14, latest_financial.retained_earnings)
                   + term(33, latest_financial.ebit)
                   + (IF market_value # NaN /\ total_debt > 0
                      THEN WeightedRatio(6, market_value, total_debt) ELSE 0)
                   + term(10, latest_financial.total_revenue)

\* _calculate_altman_z: None is NaN
CalculateAltmanZ(stock_financial, stock_market) ==
    IF stock_financial = <<>> THEN NaN
    ELSE LET latest_financial == stock_financial[Len(stock_financial)]
             working_capital == latest_financial.working_capital
             retained_earnings == latest_financial.retained_earnings
             ebit == latest_financial.ebit
             total_revenue == latest_financial.total_revenue
             total_assets == latest_financial.total_assets
             market_value == IF stock_market # <<>>
                             THEN stock_market[Len(stock_market)] ELSE NaN
             total_debt == IF total_assets = NaN THEN NaN ELSE RDiv(total_assets * 4, 10)
         IN IF total_assets = NaN \/ total_assets = 0 \/ total_debt = 0 THEN NaN
            ELSE LET z1 == IF working_capital # NaN
                           THEN WeightedRatio(12, working_capital, total_assets) ELSE 0
                     z2 == IF retained_earnings # NaN
                           THEN WeightedRatio(14, retained_earnings, total_assets) ELSE 0
                     z3 == IF ebit # NaN
                           THEN WeightedRatio(33, ebit, total_assets) ELSE 0
                     z4 == IF market_value # NaN /\ total_debt > 0
                           THEN WeightedRatio(6, market_value, total_debt) ELSE 0
                     z5 == IF total_revenue # NaN
                           THEN WeightedRatio(10, total_revenue, total_assets) ELSE 0
                 IN z1 + z2 + z3 + z4 + z5

\* the body of the loop of SafetyCalculator.calculate_factors for one stock:
\* stock_financial and stock_market are the stock's rows of tables that hold
\* rows of other stocks as well;
\* the row is appended if it carries a factor ("len(factor_values) > 2")
SafetyFactorValues(stock_code, market, stock_financial, stock_market) ==
    LET risk_factors == CalculateMarketRiskFactors(market.stock, market.benchmark)
        factor_values ==
            [ts_code |-> stock_code,
             low_beta |-> risk_factors.low_beta,
             low_idiosyncratic_risk |-> risk_factors.low_idiosyncratic_risk,
             low_debt_ratio |-> CalculateDebtRatio(stock_financial),
             altman_z |-> CalculateAltmanZ(stock_financial, stock_market)]
    IN IF \/ factor_values.low_beta # NaN
          \/ factor_values.low_idiosyncratic_risk # NaN
          \/ factor_values.low_debt_ratio # NaN
          \/ factor_values.altman_z # NaN
       THEN <<factor_values>> ELSE <<>>

(* Inputs.  Daily rows: the benchmark has a row for each of its trade
   dates; the stock has as many rows as it has, the most recent ones, with
   one date skipped when trading was suspended, and its latest returns
   missing.  Row counts are within MaxSlack of the thresholds. *)

MaxSlack == 2

FirstDate == 2 * MaxSlack + 2

BenchmarkReturn(date, flat) == IF flat THEN Scale ELSE ((date % 3) - 1) * Scale

StockReturn(date, style, flat) ==
    IF style = "tracking" THEN 2 * BenchmarkReturn(date, flat)
    ELSE (date % 2) * Scale

BenchmarkRows(n, flat) ==
    [i \in 1..n |-> [trade_date |-> FirstDate + i - 1,
                     pct_chg |-> BenchmarkReturn(FirstDate + i - 1, flat)]]

\* n rows of the stock ending at the benchmark's last date, the last
\* `missing` returns NaN; a suspended stock has no row for the date before
\* the last one
StockRows(n, last_date, missing, suspended, style, flat) ==
    [i \in 1..n |->
        LET date == IF suspended /\ i < n THEN last_date - n + i - 1
                    ELSE last_date - n + i
        IN [trade_date |-> date,
            pct_chg |-> IF i > n - missing THEN NaN ELSE StockReturn(date, style, flat)]]

RowCounts == (MinReturns - MaxSlack)..(MinReturns + MaxSlack)

MissingCounts ==
    (0..MaxSlack)
      \cup ((MinReturns - MinValidPairs - MaxSlack)..(MinReturns - MinValidPairs + MaxSlack))

MarketData(ns, nb, missing, suspended, style, flat) ==
    [stock |-> StockRows(ns, FirstDate + nb - 1, missing, suspended, style, flat),
     benchmark |-> BenchmarkRows(nb, flat)]

\* the latest quarterly row of the stock
LatestRows ==
    { [ts_code |-> 1, end_date |-> 2, debt_to_assets |-> d,
       working_capital |-> w, retained_earnings |-> w, ebit |-> w,
       total_revenue |-> r, total_assets |-> a] :
        d \in {NaN, Scale \div 2}, w \in {NaN, Scale}, r \in {NaN, 2 * Scale},
        a \in {NaN, 0, 4 * Scale, -4 * Scale} }

\* the quarterly row before it
EarlierRows ==
    { [ts_code |-> 1, end_date |-> 1, debt_to_assets |-> d,
       working_capital |-> 3 * Scale, retained_earnings |-> 3 * Scale,
       ebit |-> 3 * Scale, total_revenue |-> Scale, total_assets |-> 2 * Scale] :
        d \in {NaN, (3 * Scale) \div 10} }

FinancialRows ==
    {<<>>} \cup { <<l>> : l \in LatestRows }
           \cup { <<e, l>> : e \in EarlierRows, l \in LatestRows }

MarketValueRows == { <<>>, <<8 * Scale>> }

InitSafety ==
    /\ pc = "safety_inputs"
    /\ \/ /\ \E ns \in RowCounts, nb \in RowCounts, missing \in MissingCounts,
               suspended \in BOOLEAN, flat \in BOOLEAN, style \in {"tracking", "own"} :
               market_data = MarketData(ns, nb, missing, suspended, style, flat)
          /\ safety_financial_data = <<>>
          /\ market_value_data \in MarketValueRows
       \/ /\ \E ns \in {MinReturns - 1, MinReturns}, flat \in BOOLEAN :
               market_data = MarketData(ns, MinReturns, 0, FALSE, "tracking", flat)
          /\ safety_financial_data \in FinancialRows
          /\ market_value_data \in MarketValueRows
    /\ safety_cleaned_data = <<>>
    /\ safety_result = <<>>
    /\ factor_data = <<>>
    /\ total_mv = <<>>
    /\ merged_data = <<>>
    /\ standardized_data = <<>>
    /\ dimension_scores = <<>>
    /\ final_data = <<>>
    /\ panel_row = <<>>
    /\ target_years = 0
    /\ growth = <<>>
    /\ financial_data = <<>>
    /\ cleaned_data = <<>>
    /\ profitability_result = <<>>
    /\ CompositeIdle
    /\ BatchIdle
    /\ GrowthFactorIdle
    /\ ApiIdle
    /\ UpdateIdle

SafetyData ==
    /\ pc = "safety_inputs"
    /\ safety_cleaned_data' = GetFinancialDataForSafety(safety_financial_data)
    /\ pc' = "safety_fetched"
    /\ UNCHANGED <<market_data, safety_financial_data, market_value_data, safety_result,
                   std_vars, growth_vars, quarterly_vars, composite_vars, batch_vars, growth_factor_vars, api_vars, update_vars>>

SafetyFactors ==
    /\ pc = "safety_fetched"
    /\ safety_result' = SafetyFactorValues(1, market_data, safety_cleaned_data,
                                           market_value_data)
    /\ pc' = "safety_done"
    /\ UNCHANGED <<market_data, safety_financial_data, market_value_data,
                   safety_cleaned_data, std_vars, growth_vars, quarterly_vars, composite_vars, batch_vars, growth_factor_vars, api_vars, update_vars>>

NextSafety == SafetyData \/ SafetyFactors

SpecSafety == InitSafety /\ [][NextSafety]_vars

----------------------------------------------------------------------------
(* Vocabulary of the safety properties *)

SafetyDone == pc = "safety_done"

\* the stock's factor, NaN when no row or no such factor is emitted
SafetyFactor(name) == IF safety_result = <<>> THEN NaN ELSE safety_result[1][name]

\* the stock's and the benchmark's returns cut to equal right-aligned length
AlignedStock == LastN(PctChg(market_data.stock),
                      Min(Len(market_data.stock), Len(market_data.benchmark)))
AlignedBenchmark == LastN(PctChg(market_data.benchmark),
                          Min(Len(market_data.stock), Len(market_data.benchmark)))

\* number of positions where both returns are non-missing
ValidPairCount ==
    Cardinality({i \in 1..Len(AlignedStock) :
                    AlignedStock[i] # NaN /\ AlignedBenchmark[i] # NaN})

(* C15: the market-risk factors are emitted only if at least 50 positions
   with both returns non-missing remain after the two series are cut to
   equal right-aligned length; with fewer valid pairs neither is emitted. *)
C15_RiskFactorsNeedFiftyPairs ==
    SafetyDone =>
      ((SafetyFactor("low_beta") # NaN \/ SafetyFactor("low_idiosyncratic_risk") # NaN)
         => ValidPairCount >= 50)

\* the snapshot _calculate_altman_z reads: the stock's latest quarterly row
HasSnapshot == safety_cleaned_data # <<>>
Snapshot == safety_cleaned_data[Len(safety_cleaned_data)]
LatestMarketValue ==
    IF market_value_data = <<>> THEN NaN ELSE market_value_data[Len(market_value_data)]

\* the contribution of a term: 0 for a missing numerator, else the weighted
\* ratio, the weight in tenths
ZTerm(tenths, numerator, denominator) ==
    IF numerator = NaN THEN 0 ELSE WeightedRatio(tenths, numerator, denominator)

\* the four terms over total_assets
AssetTerms ==
    ZTerm(12, Snapshot.working_capital, Snapshot.total_assets)
      + ZTerm(14, Snapshot.retained_earnings, Snapshot.total_assets)
      + ZTerm(33, Snapshot.ebit, Snapshot.total_assets)
      + ZTerm(10, Snapshot.total_revenue, Snapshot.total_assets)

\* 0.4 * total_assets
DebtProxy == RDiv(Snapshot.total_assets * 4, 10)

AssetsUsable == HasSnapshot /\ Snapshot.total_assets # NaN /\ Snapshot.total_assets # 0

(* C16 as stated: the Altman Z factor is defined whenever total_assets of the
   latest snapshot is present and non-zero; each of the five terms is 0 for
   a missing numerator and its weighted ratio otherwise, with total_debt =
   0.4 * total_assets; the factor is undefined only when total_assets is
   missing or zero. *)
C16_AltmanZFiveTerms ==
    SafetyDone =>
      SafetyFactor("altman_z") =
        IF AssetsUsable
        THEN AssetTerms + ZTerm(6, LatestMarketValue, DebtProxy)
        ELSE NaN

(* C16 amended: as above, but the market-value term contributes its
   weighted ratio only when total_debt is positive; with negative
   total_assets it contributes 0 also when the market value is present. *)
C16_AltmanZDebtPositive ==
    SafetyDone =>
      SafetyFactor("altman_z") =
        IF AssetsUsable
        THEN AssetTerms + (IF DebtProxy > 0 THEN ZTerm(6, LatestMarketValue, DebtProxy)
                           ELSE 0)
        ELSE NaN

C16_Witness ==
    /\ SafetyDone
    /\ AssetsUsable
    /\ Snapshot.total_assets > 0
    /\ Snapshot.working_capital = NaN
    /\ Snapshot.total_revenue # NaN
    /\ LatestMarketValue # NaN
    /\ SafetyFactor("altman_z") # NaN
    /\ SafetyFactor("altman_z") # 0

----------------------------------------------------------------------------
(* Simple and ratio factors *)

\* the simple profitability factors and their metrics
SimpleFactors == { <<"ROE", "q_roe">>, <<"ROA", "roa_yearly">>,
                   <<"gross_profit_margin", "grossprofit_margin">> }

\* the stock's rows of the preprocessed table inside the profitability window
WindowRows(stock_code) == TailRows(StockData(cleaned_data, stock_code), quarters)

\* the non-missing observations of a metric in the stock's window
Observations(stock_code, metric) == dropna(Column(WindowRows(stock_code), metric))

\* the emitted value of a profitability factor of a stock, NaN if absent
ProfitabilityFactor(stock_code, name) ==
    LET r == FactorRow(profitability_result, stock_code)
    IN IF r = <<>> THEN NaN ELSE r[name]

\* the non-missing debt ratios of the stock's latest four quarters
DebtObservations ==
    dropna(Column(TailRows(safety_cleaned_data, DebtQuarters), "debt_to_assets"))

(* C17: a simple factor (ROE, ROA, gross margin, debt ratio) is emitted for
   a stock only when its metric has at least 2 non-missing quarterly
   observations in the stock's window; with 1 observation it is absent. *)
C17_SimpleFactorsNeedTwoObservations ==
    /\ ProfitabilityDone =>
         \A n \in 1..Len(StockCodes) : \A fm \in SimpleFactors :
           ProfitabilityFactor(StockCodes[n], fm[1]) # NaN
             => Len(Observations(StockCodes[n], fm[2])) >= 2
    /\ SafetyDone =>
         (SafetyFactor("low_debt_ratio") # NaN => Len(DebtObservations) >= 2)

\* the ratio factors and their numerator fields
RatioFactors == { <<"fcff_asset_ratio", "fcff">>, <<"gross_asset_ratio", "gross_margin">> }

\* the window's quarters where the numerator and total_assets are both present
BothPresent(stock_code, numerator) ==
    SelectSeq(WindowRows(stock_code),
              LAMBDA r : r[numerator] # NaN /\ r.total_assets # NaN)

\* the per-quarter ratios of those quarters
PerQuarterRatios(stock_code, numerator) ==
    LET rows == BothPresent(stock_code, numerator)
    IN [i \in 1..Len(rows) |-> RDiv(rows[i][numerator] * Scale, rows[i].total_assets)]

\* the ratio of the two fields' totals over those quarters (ratio of averages)
RatioOfAverages(stock_code, numerator) ==
    LET rows == BothPresent(stock_code, numerator)
    IN RDiv(SumSeq(Column(rows, numerator)) * Scale,
            SumSeq(Column(rows, "total_assets")))

(* C18: each ratio factor of a stock is the arithmetic mean of the
   per-quarter ratios over the quarters where both fields are present, and
   it is emitted exactly when at least 2 per-quarter ratios are defined. *)
C18_RatioFactorIsMeanOfRatios ==
    ProfitabilityDone =>
      \A n \in 1..Len(StockCodes) : \A fm \in RatioFactors :
        LET ratios == PerQuarterRatios(StockCodes[n], fm[2])
            value == ProfitabilityFactor(StockCodes[n], fm[1])
        IN IF Len(ratios) >= 2
           THEN value = RDiv(SumSeq(ratios), Len(ratios))
           ELSE value = NaN

\* a stock with a quarter lacking one field, whose emitted ratio factor
\* differs from the ratio of the averages
C18_Witness ==
    /\ ProfitabilityDone
    /\ \E n \in 1..Len(StockCodes) : \E fm \in RatioFactors :
         /\ Len(PerQuarterRatios(StockCodes[n], fm[2])) >= 2
         /\ Len(BothPresent(StockCodes[n], fm[2])) < Len(WindowRows(StockCodes[n]))
         /\ ProfitabilityFactor(StockCodes[n], fm[1]) # NaN
         /\ ProfitabilityFactor(StockCodes[n], fm[1])
              # RatioOfAverages(StockCodes[n], fm[2])

----------------------------------------------------------------------------
(* The composite growth factor: build_composite_growth_factor of
   src/source/因子成长率计算.py.  A panel is a sequence of rows, one per
   stock; a stock is named by its position in the panel. *)

MIN_VALID_SCORES == 2

\* ceiling of the fixed-point powers
PowerCap == 500 * Scale

Max(a, b) == IF a >= b THEN a ELSE b

\* x ** n in fixed point, saturating at PowerCap
RECURSIVE FPow(_, _)
FPow(x, n) ==
    IF n = 0 THEN Scale
    ELSE LET p == FPow(x, n - 1)
         IN IF p >= PowerCap THEN PowerCap ELSE Min(RDiv(p * x, Scale), PowerCap)

\* the largest r of lo..hi with r ** n <= target
RECURSIVE RootSearch(_, _, _, _)
RootSearch(lo, hi, n, target) ==
    IF lo >= hi THEN lo
    ELSE LET mid == (lo + hi + 1) \div 2
         IN IF FPow(mid, n) <= target
            THEN RootSearch(mid, hi, n, target)
            ELSE RootSearch(lo, mid - 1, n, target)

\* the number calculate_stable_growth returns:
\* (latest_avg / base_avg) ** (1 / actual_years) - 1 with actual_years in quarters
GrowthValue(g) ==
    IF g.kind = "nan" THEN NaN
    ELSE IF g.kind = "sentinel" THEN g.value
    ELSE LET ratio == RDiv(g.latest_avg * Scale, g.base_avg)
             root == IF g.actual_quarters = 4 THEN ratio
                     ELSE RootSearch(0, Max(ratio, Scale), g.actual_quarters,
                                     FPow(ratio, 4))
         IN root - Scale

\* step 2: the CAGR column of one horizon
CagrColumn(panel, years) ==
    [i \in 1..Len(panel) |-> GrowthValue(calculate_stable_growth(panel[i], years))]

AllEqual(values) == \A i, j \in 1..Len(values) : values[i] = values[j]

\* Series.std(): missing with fewer than 2 values, 0 exactly when all are equal
SeriesStd(values) ==
    IF Len(values) < 2 THEN NaN
    ELSE IF AllEqual(values) THEN 0
    ELSE Max(1, std_ddof1(values))

\* "(col - mean) / std": 0 / 0 is missing
ZScoreColumn(col) ==
    LET values == dropna(col)
        std == SeriesStd(values)
    IN [i \in 1..Len(col) |->
          IF col[i] = NaN \/ std = NaN \/ std = 0 THEN NaN
          ELSE zscore(col[i], mean(values), std)]

\* steps 2 and 3: results_df with its cagr and zscore columns, by horizon
ResultsDf(panel, years) ==
    LET cagr == [k \in 1..Len(years) |-> CagrColumn(panel, years[k])]
        z == [k \in 1..Len(years) |-> ZScoreColumn(cagr[k])]
    IN [i \in 1..Len(panel) |->
          [stock |-> i,
           cagr |-> [k \in 1..Len(years) |-> cagr[k][i]],
           zscore |-> [k \in 1..Len(years) |-> z[k][i]]]]

fillna0(s) == [k \in 1..Len(s) |-> IF s[k] = NaN THEN 0 ELSE s[k]]

\* variant of FilterAndFill that keeps a row with a single valid score
FilterAndFill_any(results) ==
    LET kept == SelectSeq(results, LAMBDA r : Len(dropna(r.zscore)) >= 1)
    IN [i \in 1..Len(kept) |-> [kept[i] EXCEPT !.zscore = fillna0(@)]]

\* steps 4 and 5: keep the rows with enough valid scores, fill the others
FilterAndFill(results) ==
    LET kept == SelectSeq(results, LAMBDA r : Len(dropna(r.zscore)) >= MIN_VALID_SCORES)
    IN [i \in 1..Len(kept) |-> [kept[i] EXCEPT !.zscore = fillna0(@)]]

\* sort_values(by=final_score_col, ascending=False): missing scores last
RECURSIVE InsertByScore(_, _)
InsertByScore(sorted, r) ==
    IF sorted = <<>> THEN <<r>>
    ELSE IF r.score # NaN /\ (Head(sorted).score = NaN \/ Head(sorted).score < r.score)
         THEN <<r>> \o sorted
         ELSE <<Head(sorted)>> \o InsertByScore(Tail(sorted), r)

RECURSIVE SortByScore(_)
SortByScore(rows) ==
    IF rows = <<>> THEN <<>>
    ELSE InsertByScore(SortByScore(SubSeq(rows, 1, Len(rows) - 1)), rows[Len(rows)])

\* steps 6 and 7
CompositeScores(filtered) ==
    LET composite_avg == [i \in 1..Len(filtered) |-> mean(filtered[i].zscore)]
        final == ZScoreColumn(composite_avg)
    IN SortByScore([i \in 1..Len(filtered) |->
                      [stock |-> filtered[i].stock,
                       cagr |-> filtered[i].cagr,
                       zscore |-> filtered[i].zscore,
                       composite_avg |-> composite_avg[i],
                       score |-> final[i]]])

build_composite_growth_factor(panel, years) ==
    CompositeScores(FilterAndFill(ResultsDf(panel, years)))

(* Inputs: panels of up to MaxStocks rows; a row is too short for any
   horizon, level, negative, or level with a step in its last 3 quarters *)

MaxStocks == 3

YearsLists == { <<1>>, <<3>>, <<1, 2>>, <<1, 2, 3>> }

Level(c, n) == [i \in 1..n |-> c]

Step(a, b, n) == [i \in 1..n |-> IF i > n - 3 THEN b ELSE a]

PanelRows ==
    { Level(Scale, 2), Level(Scale, 7), Level(Scale, 15), Level(2 * Scale, 15),
      Level(-Scale, 15), Step(Scale, 2 * Scale, 15), Step(Scale, 4 * Scale, 11) }

Panels(n) == [1..n -> PanelRows]

InitComposite ==
    /\ pc = "panel"
    /\ \E n \in 0..MaxStocks : panel_data \in Panels(n)
    /\ years_list \in YearsLists
    /\ results_df = <<>>
    /\ composite_result = <<>>
    /\ factor_data = <<>>
    /\ total_mv = <<>>
    /\ merged_data = <<>>
    /\ standardized_data = <<>>
    /\ dimension_scores = <<>>
    /\ final_data = <<>>
    /\ panel_row = <<>>
    /\ target_years = 0
    /\ growth = <<>>
    /\ financial_data = <<>>
    /\ cleaned_data = <<>>
    /\ profitability_result = <<>>
    /\ SafetyIdle
    /\ BatchIdle
    /\ GrowthFactorIdle
    /\ ApiIdle
    /\ UpdateIdle

CompositeGrowth ==
    /\ pc = "panel"
    /\ results_df' = ResultsDf(panel_data, years_list)
    /\ composite_result' = build_composite_growth_factor(panel_data, years_list)
    /\ pc' = "composite"
    /\ UNCHANGED <<panel_data, years_list, std_vars, growth_vars, quarterly_vars, safety_vars, batch_vars, growth_factor_vars, api_vars, update_vars>>

NextComposite == CompositeGrowth

SpecComposite == InitComposite /\ [][NextComposite]_vars

----------------------------------------------------------------------------
(* Vocabulary of the composite growth properties *)

CompositeDone == pc = "composite"

Horizons == 1..Len(years_list)

\* the CAGR values of one horizon across the panel, missing ones dropped
HorizonValues(k) == dropna([i \in 1..Len(results_df) |-> results_df[i].cagr[k]])

\* the composite averages of the retained stocks
CompositeAverages ==
    [i \in 1..Len(composite_result) |-> composite_result[i].composite_avg]

\* at least two values, all equal: their standard deviation is zero
ZeroStd(values) == Len(values) >= 2 /\ AllEqual(values)

\* the non-missing scores of a dimension among the members of a peer group
GroupDimension(data, g, d) == dropna(DimensionColumn(InGroup(data, g), dimension_cols[d]))

(* C20: values whose standard deviation is zero are not standardized but
   pass through unchanged, with no missing value produced: a factor
   column of a peer group, a dimension column of a peer group, the CAGR
   column of a horizon of the growth engine, and the composite averages of
   the growth engine. *)
C20_ZeroStdPassesThrough ==
    /\ PeerStandardized =>
         \A g \in {"large_cap", "small_cap"} : \A c \in FactorCols :
           ZeroStd(GroupColumn(merged_data, g, c))
             => \A i \in Members(merged_data, g) :
                  standardized_data[i].f[c] = merged_data[i].f[c]
    /\ Ranked =>
         \A g \in {"large_cap", "small_cap"} : \A d \in Dimensions :
           ZeroStd(GroupDimension(dimension_scores, g, d))
             => \A i \in Members(dimension_scores, g) :
                  ScoreOf(final_data[i], d) = ScoreOf(dimension_scores[i], d)
    /\ CompositeDone =>
         /\ \A k \in Horizons :
              ZeroStd(HorizonValues(k))
                => \A i \in 1..Len(results_df) :
                     results_df[i].zscore[k] = results_df[i].cagr[k]
         /\ ZeroStd(CompositeAverages)
              => \A i \in 1..Len(composite_result) :
                   composite_result[i].score = composite_result[i].composite_avg

----------------------------------------------------------------------------
(* The scoring system: StockScoringSystem of scoring_system.py and
   FactorCalculator.calculate_all_factors.  The factor computations are
   modelled above; here the row of a stock in a table is its ts_code, and
   what the computation of a stock's factors does on a date is given by the
   environment of the date: it yields a row, yields nothing, or raises. *)

output_all_stocks == TRUE
output_top_n == 100

Contains(codes, c) == \E i \in 1..Len(codes) : codes[i] = c

\* the three per-stock loops and the merge of calculate_all_factors: an
\* exception of a loop body leaves the loop and is re-raised
calculate_all_factors(stock_codes, outcome) ==
    IF \E i \in 1..Len(stock_codes) : outcome[stock_codes[i]] = "raises"
    THEN [raised |-> TRUE, factor_scores |-> <<>>]
    ELSE [raised |-> FALSE,
          factor_scores |-> SelectSeq(stock_codes, LAMBDA c : outcome[c] = "row")]

\* ResultIntegrator.integrate_results: a left join on the factor scores
integrate_results(factor_scores, stock_info) ==
    IF factor_scores = <<>> THEN <<>> ELSE factor_scores

head(rows, n) == IF Len(rows) <= n THEN rows ELSE SubSeq(rows, 1, n)

\* a returned dictionary: success is "true", "false" or "absent" (no key)
Returned(success, error, results) ==
    [raised |-> FALSE, success |-> success, error |-> error, results |-> results]

\* variant of calculate_scores without the check of an empty result table
calculate_scores_unchecked(env, arg) ==
    IF ~env.well_formed
    THEN [raised |-> TRUE, success |-> "absent", error |-> "ValueError", results |-> <<>>]
    ELSE LET stock_info == IF arg.given
                           THEN SelectSeq(env.stock_info, LAMBDA c : Contains(arg.codes, c))
                           ELSE env.stock_info
             stock_codes == IF arg.given THEN arg.codes ELSE stock_info
             factor_results == calculate_all_factors(stock_codes, env.outcome)
         IN IF stock_info = <<>>
            THEN Returned("absent",
                          IF arg.given THEN "invalid_stock_codes" ELSE "no_valid_stocks", <<>>)
            ELSE IF factor_results.raised
            THEN Returned("false", "exception", <<>>)
            ELSE Returned("true", "",
                          integrate_results(factor_results.factor_scores, stock_info))

\* StockScoringSystem.calculate_scores for one date; raised: the exception
\* of strptime, which is outside the try block
calculate_scores(env, arg) ==
    IF ~env.well_formed
    THEN [raised |-> TRUE, success |-> "absent", error |-> "ValueError", results |-> <<>>]
    ELSE LET stock_info == IF arg.given
                           THEN SelectSeq(env.stock_info, LAMBDA c : Contains(arg.codes, c))
                           ELSE env.stock_info
             stock_codes == IF arg.given THEN arg.codes ELSE stock_info
             factor_results == calculate_all_factors(stock_codes, env.outcome)
             final_results == integrate_results(factor_results.factor_scores, stock_info)
         IN IF stock_info = <<>>
            THEN Returned("absent",
                          IF arg.given THEN "invalid_stock_codes" ELSE "no_valid_stocks", <<>>)
            ELSE IF factor_results.raised
            THEN Returned("false", "exception", <<>>)
            ELSE IF final_results = <<>>
            THEN Returned("absent", "no_valid_results", <<>>)
            ELSE Returned("true", "",
                          IF output_all_stocks THEN final_results
                          ELSE head(final_results, output_top_n))

\* the entry of batch_results for a date: "except Exception" of the loop
BatchEntry(r) == IF r.raised THEN Returned("false", "exception", <<>>) ELSE r

\* variant: the loop ends at the first date whose calculation raises
BatchContinues_stopping(r) == ~r.raised

\* whether the loop of batch_calculate goes on after a date: it has no
\* break and no return
BatchContinues(r) == TRUE

(* Inputs: up to MaxDates dates out of three, each with its environment *)

MaxDates == 3

Dates == 1..3

Environments ==
    { [well_formed |-> FALSE, stock_info |-> <<>>, outcome |-> <<"none", "none">>],
      [well_formed |-> TRUE, stock_info |-> <<>>, outcome |-> <<"none", "none">>],
      [well_formed |-> TRUE, stock_info |-> <<1, 2>>, outcome |-> <<"none", "none">>],
      [well_formed |-> TRUE, stock_info |-> <<1, 2>>, outcome |-> <<"raises", "row">>],
      [well_formed |-> TRUE, stock_info |-> <<1, 2>>, outcome |-> <<"row", "none">>],
      [well_formed |-> TRUE, stock_info |-> <<1, 2>>, outcome |-> <<"row", "row">>],
      [well_formed |-> TRUE, stock_info |-> <<1>>, outcome |-> <<"row", "none">>] }

StockCodeArguments ==
    { [given |-> FALSE, codes |-> <<>>], [given |-> TRUE, codes |-> StockCodes] }

InitBatch ==
    /\ pc = "batch"
    /\ \E n \in 0..MaxDates : date_list \in [1..n -> Dates]
    /\ stock_codes_arg \in StockCodeArguments
    /\ environment \in [Dates -> Environments]
    /\ cursor = 1
    /\ batch_results = <<>>
    /\ success_count = 0
    /\ summary = <<>>
    /\ factor_data = <<>>
    /\ total_mv = <<>>
    /\ merged_data = <<>>
    /\ standardized_data = <<>>
    /\ dimension_scores = <<>>
    /\ final_data = <<>>
    /\ panel_row = <<>>
    /\ target_years = 0
    /\ growth = <<>>
    /\ financial_data = <<>>
    /\ cleaned_data = <<>>
    /\ profitability_result = <<>>
    /\ SafetyIdle
    /\ CompositeIdle
    /\ GrowthFactorIdle
    /\ ApiIdle
    /\ UpdateIdle

\* one pass of "for date in date_list"
BatchDate ==
    /\ pc = "batch"
    /\ cursor <= Len(date_list)
    /\ LET date == date_list[cursor]
           r == calculate_scores(environment[date], stock_codes_arg)
           result == BatchEntry(r)
       IN /\ batch_results' = [d \in DOMAIN batch_results \cup {date} |->
                                  IF d = date THEN result ELSE batch_results[d]]
          /\ success_count' = IF result.success = "true"
                              THEN success_count + 1 ELSE success_count
          /\ cursor' = IF BatchContinues(r) THEN cursor + 1 ELSE Len(date_list) + 1
    /\ UNCHANGED <<pc, date_list, stock_codes_arg, environment, summary, std_vars, growth_vars, quarterly_vars, safety_vars, composite_vars, growth_factor_vars, api_vars, update_vars>>

\* the summary after the loop
BatchSummary ==
    /\ pc = "batch"
    /\ cursor > Len(date_list)
    /\ summary' = [total_dates |-> Len(date_list),
                   success_count |-> success_count,
                   failure_count |-> Len(date_list) - success_count,
                   success_rate |-> IF date_list # <<>>
                                    THEN RDiv(success_count * Scale, Len(date_list)) ELSE 0,
                   results |-> batch_results]
    /\ pc' = "batch_done"
    /\ UNCHANGED <<date_list, stock_codes_arg, environment, cursor, batch_results, success_count, std_vars, growth_vars, quarterly_vars, safety_vars, composite_vars, growth_factor_vars, api_vars, update_vars>>

NextBatch == BatchDate \/ BatchSummary

SpecBatch == InitBatch /\ [][NextBatch]_vars

----------------------------------------------------------------------------
(* Growth dimension: GrowthCalculator.calculate_factors for one stock.
   growth_financial_data holds the stock's quarterly rows [ts_code,
   end_date, q_roe, roa_yearly, grossprofit_margin, fcff, gross_margin,
   total_assets].  Dates are counted in quarters, the calculation date is a
   quarter end, and a span of 365 days is 4 quarters.  growth_rates maps a
   factor to the list of its per-period growth rates, growth_result is the
   result table: no row, or the one row of the stock with NaN for a factor
   that is not emitted. *)

growth_indicators == <<"q_roe", "roa_yearly", "grossprofit_margin", "fcff",
                       "gross_margin", "total_assets">>

GrowthFactorNames == {"ROE", "ROA", "gross_profit_margin", "fcff_asset_ratio",
                      "gross_asset_ratio"}

\* "len(stock_data) < 8"
MinGrowthQuarters == 8

\* "len(recent_data) < 2 or len(base_data) < 2"
MinWindowRows == 2

\* timedelta(days=365) in quarters
QuartersPerYear == 4

get_dynamic_growth_periods(year) ==
    IF year <= 2021 THEN <<3>>
    ELSE IF year = 2022 THEN <<3, 4>> ELSE <<3, 4, 5>>

\* the quarter index of the calculation date
CalculationDate(year) == QuartersPerYear * year

RECURSIVE MaxOf(_)
MaxOf(s) == IF Len(s) = 1 THEN s[1] ELSE Max(Head(s), MaxOf(Tail(s)))

\* get_quarterly_data with the growth indicators, from start_date to the
\* calculation date
GetFinancialDataForGrowth(data, year) ==
    LET start_date == CalculationDate(year)
                        - (MaxOf(get_dynamic_growth_periods(year)) + 1) * QuartersPerYear
        fetched == SelectSeq(data, LAMBDA r : /\ r.end_date >= start_date
                                              /\ r.end_date <= CalculationDate(year))
    IN IF fetched = <<>> THEN <<>>
       ELSE SortValuesByKey(
                WinsorizeColumns(DropDuplicatesKeepLast(fetched), growth_indicators, 1))

\* Series.mean(): over the non-missing values, missing when there is none
SeriesMean(series) == IF dropna(series) = <<>> THEN NaN ELSE mean(dropna(series))

\* "(recent_value - base_value) / abs(base_value)" behind its three tests
GrowthRate(recent_value, base_value) ==
    IF recent_value # NaN /\ base_value # NaN /\ base_value # 0
    THEN RDiv((recent_value - base_value) * Scale, Abs(base_value))
    ELSE NaN

\* _calculate_period_growth: the factor's growth rate, NaN for a factor the
\* returned dictionary does not hold
calculate_period_growth(stock_data, years_back, year) ==
    LET base_date == CalculationDate(year) - years_back * QuartersPerYear
        recent_data == SelectSeq(stock_data,
                           LAMBDA r : r.end_date >= CalculationDate(year) - QuartersPerYear)
        base_data == SelectSeq(stock_data,
                         LAMBDA r : /\ r.end_date >= base_date - QuartersPerYear
                                    /\ r.end_date <= base_date)
        Simple(rows, column) == SeriesMean(Column(rows, column))
        OfAssets(rows, column) ==
            SeriesMean([i \in 1..Len(rows) |->
                           Ratio(rows[i][column], rows[i].total_assets)])
    IN IF Len(recent_data) < MinWindowRows \/ Len(base_data) < MinWindowRows
       THEN [f \in GrowthFactorNames |-> NaN]
       ELSE [ROE |-> GrowthRate(Simple(recent_data, "q_roe"), Simple(base_data, "q_roe")),
             ROA |-> GrowthRate(Simple(recent_data, "roa_yearly"),
                                Simple(base_data, "roa_yearly")),
             gross_profit_margin |->
                 GrowthRate(Simple(recent_data, "grossprofit_margin"),
                            Simple(base_data, "grossprofit_margin")),
             fcff_asset_ratio |->
                 GrowthRate(OfAssets(recent_data, "fcff"), OfAssets(base_data, "fcff")),
             gross_asset_ratio |->
                 GrowthRate(OfAssets(recent_data, "gross_margin"),
                            OfAssets(base_data, "gross_margin"))]

\* the loop over growth_periods: each factor's rates, in the periods' order
RECURSIVE GrowthRates(_, _, _, _)
GrowthRates(stock_data, periods, k, year) ==
    IF k = 0 THEN [f \in GrowthFactorNames |-> <<>>]
    ELSE LET before == GrowthRates(stock_data, periods, k - 1, year)
             period_growth == calculate_period_growth(stock_data, periods[k], year)
         IN [f \in GrowthFactorNames |->
                IF period_growth[f] = NaN THEN before[f]
                ELSE Append(before[f], period_growth[f])]

\* a multiple of 1/8 is a binary fraction: sums and means of copies of it
\* are exact in double precision
BinaryFraction(x) == (8 * x) % Scale = 0

(* np.std(valid_rates, ddof=1) of two or more rates.  Unequal rates have a
   positive deviation, at least the smallest unit here.  For equal rates the
   deviation is 0 when np.mean gives the rate back: always for two rates
   (a + a and its half are exact) and for a binary fraction; for three or
   more copies of another rate the sum is rounded, and exact tells whether
   the mean still equals the rate (0.3 three times) or not (0.1 three
   times, where the deviation is about 1.7e-17). *)
RatesStd(valid_rates, exact) ==
    IF ~AllEqual(valid_rates) THEN Max(std_ddof1(valid_rates), 1)
    ELSE IF Len(valid_rates) = 2 \/ BinaryFraction(valid_rates[1]) \/ exact
         THEN 0 ELSE 1

\* the aggregation lines of calculate_factors with the mean in place of the
\* difference of the mean with itself
GrowthFactor_mean(rates, exact) ==
    IF dropna(rates) = <<>> THEN NaN
    ELSE IF Len(dropna(rates)) = 1 THEN dropna(rates)[1]
         ELSE mean(dropna(rates))

\* the aggregation lines of calculate_factors: one factor from its rates
GrowthFactor(rates, exact) ==
    LET valid_rates == dropna(rates)
    IN IF Len(rates) = 0 \/ valid_rates = <<>> THEN NaN
       ELSE IF Len(valid_rates) = 1 THEN valid_rates[1]
            ELSE LET mean_rate == mean(valid_rates)
                     std_rate == RatesStd(valid_rates, exact)
                 IN IF std_rate > 0
                    THEN RDiv((mean_rate - mean(valid_rates)) * Scale, std_rate)
                    ELSE mean_rate

\* calculate_factors for the stock: its rates and the result table
GrowthCalculator_calculate_factors(data, year, exact) ==
    LET financial_data_ == GetFinancialDataForGrowth(data, year)
        growth_periods == get_dynamic_growth_periods(year)
        rates == GrowthRates(financial_data_, growth_periods, Len(growth_periods), year)
    IN IF financial_data_ = <<>> \/ Len(financial_data_) < MinGrowthQuarters
       THEN [rates |-> [f \in GrowthFactorNames |-> <<>>], result |-> <<>>]
       ELSE [rates |-> rates,
             result |-> << [ts_code |-> financial_data_[1].ts_code,
                            factors |-> [f \in GrowthFactorNames |->
                                            GrowthFactor(rates[f], exact)]] >>]

(* Inputs: the last n quarters of one stock up to the calculation date.
   Every column but roa_yearly and total_assets carries the level of the
   row's age group: the last year, the filler years in between, and the
   years around 3, 4 and 5 years back.  roa_yearly is reported for the last
   4 years only, total_assets is constant. *)

MaxGrowthQuarters == 25

GrowthYears == {2021, 2022, 2023}

RecentLevels == {NaN, Scale, (12 * Scale) \div 10}

BaseLevels == {NaN, 0, -Scale, Scale, 2 * Scale}

HistoryLengths == {0, 7, 8, 14, 18, 22, MaxGrowthQuarters}

LevelOf(age, levels) ==
    IF age <= 4 THEN levels[1]
    ELSE IF age < 12 THEN Scale
         ELSE IF age < 16 THEN levels[2]
              ELSE IF age < 20 THEN levels[3] ELSE levels[4]

GrowthReport(date, age, levels) ==
    [ts_code |-> 1, end_date |-> date,
     q_roe |-> LevelOf(age, levels), grossprofit_margin |-> LevelOf(age, levels),
     fcff |-> LevelOf(age, levels), gross_margin |-> LevelOf(age, levels),
     roa_yearly |-> IF age <= 16 THEN LevelOf(age, levels) ELSE NaN,
     total_assets |-> 2 * Scale]

GrowthReports(n, year, levels) ==
    [i \in 1..n |-> GrowthReport(CalculationDate(year) - n + i, n - i, levels)]

InitGrowthFactors ==
    /\ pc = "growth_fetched"
    /\ calculation_year \in GrowthYears
    /\ \E n \in HistoryLengths,
          levels \in RecentLevels \X BaseLevels \X BaseLevels \X BaseLevels :
          growth_financial_data = GrowthReports(n, calculation_year, levels)
    /\ mean_exact \in BOOLEAN
    /\ growth_rates = <<>>
    /\ growth_result = <<>>
    /\ factor_data = <<>>
    /\ total_mv = <<>>
    /\ merged_data = <<>>
    /\ standardized_data = <<>>
    /\ dimension_scores = <<>>
    /\ final_data = <<>>
    /\ panel_row = <<>>
    /\ target_years = 0
    /\ growth = <<>>
    /\ financial_data = <<>>
    /\ cleaned_data = <<>>
    /\ profitability_result = <<>>
    /\ SafetyIdle
    /\ CompositeIdle
    /\ BatchIdle
    /\ ApiIdle
    /\ UpdateIdle

GrowthFactors ==
    /\ pc = "growth_fetched"
    /\ LET out == GrowthCalculator_calculate_factors(
                      growth_financial_data, calculation_year, mean_exact)
       IN /\ growth_rates' = out.rates
          /\ growth_result' = out.result
    /\ pc' = "growth_factors_done"
    /\ UNCHANGED <<std_vars, growth_vars, quarterly_vars, safety_vars, composite_vars,
                   batch_vars, calculation_year, growth_financial_data, mean_exact, api_vars, update_vars>>

NextGrowthFactors == GrowthFactors

SpecGrowthFactors == InitGrowthFactors /\ [][NextGrowthFactors]_vars

----------------------------------------------------------------------------
(* The data source: TushareManager._safe_api_call.  api_answers is what
   api_func would do at its first, second, ... invocation: return rows
   ("data"), return an empty table ("empty"), return None ("none") or raise
   ("raises").  attempt is the loop variable, api_log the answers of the
   invocations made so far, api_result what the call gave back. *)

max_retries == 3

Answers == {"data", "empty", "none", "raises"}

\* what one pass of the loop body leads to, with a raise at every failure
AfterAttempt_raise_first(answer, attempt_) ==
    IF answer = "data" THEN "return"
    ELSE IF answer = "raises" THEN "raise" ELSE "next"

\* what one pass of the loop body leads to
AfterAttempt(answer, attempt_) ==
    IF answer = "data" THEN "return"
    ELSE IF answer = "raises"
         THEN IF attempt_ < max_retries - 1 THEN "next" ELSE "raise"
         ELSE "next"

MaxAnswers == 4

InitApiCall ==
    /\ pc = "api_call"
    /\ api_answers \in [1..MaxAnswers -> Answers]
    /\ attempt = 0
    /\ api_log = <<>>
    /\ api_result = "none yet"
    /\ factor_data = <<>>
    /\ total_mv = <<>>
    /\ merged_data = <<>>
    /\ standardized_data = <<>>
    /\ dimension_scores = <<>>
    /\ final_data = <<>>
    /\ panel_row = <<>>
    /\ target_years = 0
    /\ growth = <<>>
    /\ financial_data = <<>>
    /\ cleaned_data = <<>>
    /\ profitability_result = <<>>
    /\ SafetyIdle
    /\ CompositeIdle
    /\ BatchIdle
    /\ GrowthFactorIdle
    /\ UpdateIdle

\* one pass of "for attempt in range(max_retries)"
ApiAttempt ==
    /\ pc = "api_call"
    /\ attempt < max_retries
    /\ LET answer == api_answers[Len(api_log) + 1]
           after == AfterAttempt(answer, attempt)
       IN /\ api_log' = Append(api_log, answer)
          /\ IF after = "return"
             THEN /\ pc' = "api_returned"
                  /\ api_result' = "data"
                  /\ attempt' = attempt
             ELSE IF after = "raise"
                  THEN /\ pc' = "api_raised"
                       /\ api_result' = "exception"
                       /\ attempt' = attempt
                  ELSE /\ pc' = pc
                       /\ api_result' = api_result
                       /\ attempt' = attempt + 1
    /\ UNCHANGED <<std_vars, growth_vars, quarterly_vars, safety_vars, composite_vars,
                   batch_vars, growth_factor_vars, api_answers, update_vars>>

\* "return pd.DataFrame()" after the loop
ApiGiveUp ==
    /\ pc = "api_call"
    /\ attempt = max_retries
    /\ pc' = "api_returned"
    /\ api_result' = "empty table"
    /\ UNCHANGED <<std_vars, growth_vars, quarterly_vars, safety_vars, composite_vars,
                   batch_vars, growth_factor_vars, api_answers, attempt, api_log, update_vars>>

NextApiCall == ApiAttempt \/ ApiGiveUp

\* the loop is sequential code between bounded sleeps: it keeps stepping
SpecApiCall == InitApiCall /\ [][NextApiCall]_vars /\ WF_vars(NextApiCall)

----------------------------------------------------------------------------
(* The data updater: DataUpdater.update_financial_data and
   _update_financial_indicators.  stock_list is the stock universe,
   fetch_answers what get_financial_indicator does for each stock (rows,
   an empty table, or an exception), stock_financial_indicators the
   database table as a sequence of rows [ts_code, end_date].  The batches
   of 50 stocks are visited in list order, so the two nested loops are one
   pass over stock_list. *)

update_counter_reset == 4

\* "full_update = (self.update_counter % self.config.update_counter_reset == 0)"
DecideFullUpdate(argument, counter) ==
    IF argument = "None" THEN counter % update_counter_reset = 0
    ELSE argument = "True"

\* the rows the data source holds for a stock
FetchedRows(ts_code) ==
    << [ts_code |-> ts_code, end_date |-> 1], [ts_code |-> ts_code, end_date |-> 2] >>

\* DataFrame.to_sql(..., if_exists=...): 'replace' drops the table and
\* creates it from the frame, 'append' inserts the frame's rows
to_sql(table, df, if_exists) ==
    IF if_exists = "replace" THEN df ELSE table \o df

MaxUniverse == 3

Universe == 1..MaxUniverse

FetchAnswers == {"data", "empty", "raises"}

\* the stock lists: distinct codes in any order
StockLists(n) ==
    {l \in [1..n -> Universe] : \A i, j \in 1..n : i # j => l[i] # l[j]}

InitUpdate ==
    /\ pc = "update_called"
    /\ \E n \in 0..MaxUniverse : stock_list \in StockLists(n)
    /\ fetch_answers \in [Universe -> FetchAnswers]
    /\ full_update_arg \in {"None", "True", "False"}
    /\ backup_ok \in BOOLEAN
    /\ update_counter \in {0, update_counter_reset - 1}
    /\ full_update = FALSE
    /\ update_cursor = 1
    /\ stock_financial_indicators \in {<<>>, <<[ts_code |-> 1, end_date |-> 0]>>}
    /\ factor_data = <<>>
    /\ total_mv = <<>>
    /\ merged_data = <<>>
    /\ standardized_data = <<>>
    /\ dimension_scores = <<>>
    /\ final_data = <<>>
    /\ panel_row = <<>>
    /\ target_years = 0
    /\ growth = <<>>
    /\ financial_data = <<>>
    /\ cleaned_data = <<>>
    /\ profitability_result = <<>>
    /\ SafetyIdle
    /\ CompositeIdle
    /\ BatchIdle
    /\ GrowthFactorIdle
    /\ ApiIdle

\* update_financial_data up to the stock list: the counter, the decision,
\* the backup before a full update (its failure ends the update)
UpdateStart ==
    /\ pc = "update_called"
    /\ update_counter' = update_counter + 1
    /\ full_update' = DecideFullUpdate(full_update_arg, update_counter + 1)
    /\ pc' = IF full_update' /\ ~backup_ok THEN "update_failed" ELSE "updating"
    /\ UNCHANGED <<std_vars, growth_vars, quarterly_vars, safety_vars, composite_vars,
                   batch_vars, growth_factor_vars, api_vars, stock_list, fetch_answers,
                   full_update_arg, backup_ok, update_cursor, stock_financial_indicators>>

\* one stock of _update_financial_indicators
UpdateStock ==
    /\ pc = "updating"
    /\ update_cursor <= Len(stock_list)
    /\ LET ts_code == stock_list[update_cursor]
       IN stock_financial_indicators' =
              IF fetch_answers[ts_code] = "data"
              THEN to_sql(stock_financial_indicators, FetchedRows(ts_code),
                          IF ~full_update THEN "append" ELSE "replace")
              ELSE stock_financial_indicators
    /\ update_cursor' = update_cursor + 1
    /\ UNCHANGED <<pc, std_vars, growth_vars, quarterly_vars, safety_vars, composite_vars,
                   batch_vars, growth_factor_vars, api_vars, stock_list, fetch_answers,
                   full_update_arg, backup_ok, update_counter, full_update>>

\* the balance sheet and income statement steps do nothing; the counter is saved
UpdateFinish ==
    /\ pc = "updating"
    /\ update_cursor > Len(stock_list)
    /\ pc' = "updated"
    /\ UNCHANGED <<std_vars, growth_vars, quarterly_vars, safety_vars, composite_vars,
                   batch_vars, growth_factor_vars, api_vars, update_vars>>

NextUpdate == UpdateStart \/ UpdateStock \/ UpdateFinish

SpecUpdate == InitUpdate /\ [][NextUpdate]_vars

----------------------------------------------------------------------------
(* Vocabulary of the data-update properties *)

Updated == pc = "updated"

\* the stocks of the list whose indicator data came back non-empty
StocksWithData ==
    {stock_list[i] : i \in {j \in 1..Len(stock_list) : fetch_answers[stock_list[j]] = "data"}}

TableHolds(rows) ==
    \A i \in 1..Len(rows) :
       \E k \in 1..Len(stock_financial_indicators) : stock_financial_indicators[k] = rows[i]

(* C30: after a full update over a stock list in which several stocks
   return non-empty indicator data, stock_financial_indicators holds the
   fetched rows of every one of those stocks. *)
C30_FullUpdateKeepsEveryStock ==
    Updated /\ full_update /\ Cardinality(StocksWithData) >= 2 =>
        \A ts_code \in StocksWithData : TableHolds(FetchedRows(ts_code))

----------------------------------------------------------------------------
(* Vocabulary of the API-call properties *)

ApiReturned == pc = "api_returned"

ApiRaised == pc = "api_raised"

Invocations == Len(api_log)

\* no invocation was made after a non-empty result
NoCallAfterData == \A i \in 1..(Invocations - 1) : api_log[i] # "data"

ApiOutcome ==
    /\ ApiReturned /\ api_result = "data" => api_log[Invocations] = "data"
    /\ ApiRaised => Invocations = max_retries /\ api_log[max_retries] = "raises"
    /\ ApiReturned /\ api_result = "empty table" =>
           /\ Invocations = max_retries
           /\ api_log[max_retries] \in {"empty", "none"}
    /\ (ApiReturned \/ ApiRaised) /\ Invocations = max_retries
           /\ api_log[max_retries] = "raises" => ApiRaised

(* C29: _safe_api_call terminates, after at most 3 invocations of api_func
   and none after the first non-empty result; it returns the first
   non-empty result, raises only when the third attempt raised, and
   returns an empty table when the third attempt returned no data. *)
C29_SafeApiCallTerminates ==
    /\ [](Invocations <= max_retries /\ NoCallAfterData /\ ApiOutcome)
    /\ <>(ApiReturned \/ ApiRaised)

\* two swallowed failures, then the third attempt raises and the call raises
C29_Witness ==
    /\ ApiRaised
    /\ api_log = <<"raises", "empty", "raises">>
    /\ api_answers[MaxAnswers] = "data"

----------------------------------------------------------------------------
(* Vocabulary of the growth-factor properties *)

GrowthFactorsDone == pc = "growth_factors_done" /\ growth_result # <<>>

\* the factor the result row carries
EmittedGrowth(f) == growth_result[1].factors[f]

\* np.mean gives the rate back for these equal rates
MeanGivesRateBack(rates) ==
    Len(rates) = 2 \/ BinaryFraction(rates[1]) \/ mean_exact

(* C28: a growth factor built from two or more valid per-period rates that
   are not all equal is exactly 0; from a single rate it is that rate; from
   equal rates it is their mean when np.mean gives the rate back (always
   for two rates), and 0 otherwise. *)
C28_GrowthFactorIsZeroOrRate ==
    GrowthFactorsDone =>
        \A f \in GrowthFactorNames :
            LET rates == growth_rates[f]
            IN /\ Len(rates) = 0 => EmittedGrowth(f) = NaN
               /\ Len(rates) = 1 => EmittedGrowth(f) = rates[1]
               /\ Len(rates) >= 2 /\ ~AllEqual(rates) => EmittedGrowth(f) = 0
               /\ Len(rates) >= 2 /\ AllEqual(rates) /\ MeanGivesRateBack(rates)
                      => EmittedGrowth(f) = rates[1]
               /\ Len(rates) >= 2 /\ AllEqual(rates) /\ ~MeanGivesRateBack(rates)
                      => EmittedGrowth(f) = 0

\* the claim as stated: equal rates always give their mean
C28_Original ==
    GrowthFactorsDone =>
        \A f \in GrowthFactorNames :
            LET rates == growth_rates[f]
            IN /\ Len(rates) = 1 => EmittedGrowth(f) = rates[1]
               /\ Len(rates) >= 2 /\ ~AllEqual(rates) => EmittedGrowth(f) = 0
               /\ Len(rates) >= 2 /\ AllEqual(rates) => EmittedGrowth(f) = mean(rates)

\* one factor from unequal rates that average away from 0, another from a
\* single rate, in the same row
C28_Witness ==
    /\ GrowthFactorsDone
    /\ Len(growth_rates["ROE"]) >= 2
    /\ ~AllEqual(growth_rates["ROE"])
    /\ mean(growth_rates["ROE"]) # 0
    /\ EmittedGrowth("ROE") = 0
    /\ Len(growth_rates["ROA"]) = 1
    /\ EmittedGrowth("ROA") = growth_rates["ROA"][1]

----------------------------------------------------------------------------
(* Vocabulary of the batch properties *)

BatchDone == pc = "batch_done"

Positions == 1..Len(date_list)

\* the stocks the data source knows on a date, among those asked for
KnownStocks(d) ==
    IF stock_codes_arg.given
    THEN SelectSeq(environment[d].stock_info,
                   LAMBDA c : Contains(stock_codes_arg.codes, c))
    ELSE environment[d].stock_info

\* the stocks whose factors are computed on a date
ComputedStocks(d) ==
    IF stock_codes_arg.given THEN stock_codes_arg.codes ELSE environment[d].stock_info

SomeStockRaises(d) ==
    \E i \in 1..Len(ComputedStocks(d)) :
       environment[d].outcome[ComputedStocks(d)[i]] = "raises"

\* the computed stocks whose factor computation yields a row
RowStocks(d) ==
    SelectSeq(ComputedStocks(d), LAMBDA c : environment[d].outcome[c] = "row")

\* the date's own calculation succeeds
DateSucceeds(d) ==
    /\ environment[d].well_formed
    /\ KnownStocks(d) # <<>>
    /\ ~SomeStockRaises(d)
    /\ RowStocks(d) # <<>>

Processed(d) == d \in DOMAIN batch_results

(* C12: batch_calculate processes every date of date_list: whatever the
   earlier dates did (returned a failure, raised), each date has its own
   entry in the results, the entry is a success exactly when that date's
   own calculation succeeds, and success_count + failure_count equals
   total_dates, the number of dates. *)
C12_EveryDateProcessed ==
    BatchDone =>
      /\ summary.total_dates = Len(date_list)
      /\ summary.success_count + summary.failure_count = summary.total_dates
      /\ DOMAIN summary.results = {date_list[i] : i \in Positions}
      /\ \A i \in Positions :
           (summary.results[date_list[i]].success = "true") <=> DateSucceeds(date_list[i])
      /\ summary.success_count = Cardinality({i \in Positions : DateSucceeds(date_list[i])})

\* a date whose calculation raises, then one that returns a failure, then
\* one that succeeds
C12_Witness ==
    /\ BatchDone
    /\ \E i, j, k \in Positions :
         /\ i < j /\ j < k
         /\ ~environment[date_list[i]].well_formed
         /\ environment[date_list[j]].well_formed /\ ~DateSucceeds(date_list[j])
         /\ summary.results[date_list[k]].success = "true"

(* C13: a result of calculate_scores marked as a success has a non-empty
   result table; when no stock is retrieved, when the given stock codes are
   invalid, or when the factor computation yields no rows, the result
   carries an error description and is not marked as a success. *)
C13_NoEmptySuccess ==
    \A d \in Dates : Processed(d) =>
      LET r == batch_results[d]
      IN /\ r.success = "true" => r.results # <<>>
         /\ ( /\ environment[d].well_formed
              /\ \/ KnownStocks(d) = <<>>
                 \/ (~SomeStockRaises(d) /\ RowStocks(d) = <<>>) )
              => (r.success # "true" /\ r.error # "")

\* a date without stocks and a date whose stocks yield no factor rows
C13_Witness ==
    \E d, e \in Dates :
       /\ Processed(d) /\ Processed(e)
       /\ batch_results[d].error \in {"no_valid_stocks", "invalid_stock_codes"}
       /\ batch_results[e].error = "no_valid_results"

(* C14: when the factor computation of one stock raises, that stock alone
   is left out: the other stocks of the date are computed and returned, and
   the run of the date is a success if any of them has a row. *)
C14_StockFailureIsolated ==
    \A d \in Dates :
      ( /\ Processed(d)
        /\ environment[d].well_formed
        /\ KnownStocks(d) # <<>>
        /\ SomeStockRaises(d)
        /\ RowStocks(d) # <<>> )
      => /\ batch_results[d].success = "true"
         /\ batch_results[d].results = RowStocks(d)

----------------------------------------------------------------------------
(* Composite growth factor: retention and filling *)

\* the valid per-horizon Z-scores of a stock of the panel, before the filling
ValidScores(i) == dropna(results_df[i].zscore)

RetainedStocks == {composite_result[i].stock : i \in 1..Len(composite_result)}

(* C21: a stock is retained exactly when it has at least 2 non-missing
   per-horizon Z-scores; a retained stock's missing Z-scores are replaced by
   0 and its composite average is the sum of its available Z-scores divided
   by the number of horizons. *)
C21_RetainedAndZeroFilled ==
    CompositeDone =>
      /\ RetainedStocks = {i \in 1..Len(results_df) : Len(ValidScores(i)) >= MIN_VALID_SCORES}
      /\ Len(composite_result) = Cardinality(RetainedStocks)
      /\ \A i \in 1..Len(composite_result) :
           LET r == composite_result[i]
               z == results_df[r.stock].zscore
           IN /\ \A k \in Horizons : r.zscore[k] = IF z[k] = NaN THEN 0 ELSE z[k]
              /\ r.composite_avg = RDiv(SumSeq(ValidScores(r.stock)), Len(years_list))

\* a retained stock with a missing Z-score whose available ones do not sum
\* to 0, next to a stock that is dropped with one valid Z-score
C21_Witness ==
    /\ CompositeDone
    /\ \E i \in RetainedStocks :
         /\ Len(ValidScores(i)) < Len(years_list)
         /\ SumSeq(ValidScores(i)) # 0
    /\ \E j \in 1..Len(results_df) : Len(ValidScores(j)) = 1

(* C27: with a single horizon no stock reaches the minimum of 2 valid
   per-horizon Z-scores, so the returned table is empty whatever the panel. *)
C27_SingleHorizonEmpty ==
    (CompositeDone /\ Len(years_list) = 1) => composite_result = <<>>

\* a single horizon for which at least two stocks have a Z-score
C27_Witness ==
    /\ CompositeDone
    /\ Len(years_list) = 1
    /\ \E i, j \in 1..Len(results_df) :
         /\ i # j
         /\ results_df[i].zscore[1] # NaN
         /\ results_df[j].zscore[1] # NaN
    /\ composite_result = <<>>

----------------------------------------------------------------------------
(* Stable growth: elapsed time and shifts *)

\* quarters between the centre of the latest 3-quarter window and the
\* centre of the base window found at the given shift
CentreQuarters(shift) == 4 * target_years + 1 + shift - 1

(* C22: the annualization exponent is 1 / actual_years, where actual_years
   is the number of quarters between the centre of the latest window and
   the centre of the base window, divided by 4, and 1 when that is below 1. *)
C22_YearsBetweenCentres ==
    (GrowthDone /\ growth.kind = "cagr")
      => growth.actual_quarters = Max(4, CentreQuarters(growth.shift))

(* C26: with the default parameters calculate_stable_growth returns a
   defined value exactly when the row has at least 4 * target_years + 3
   non-missing values, and a base window that is found is the one at
   shift 0. *)
C26_DefinedIffEnoughValues ==
    GrowthDone =>
      /\ (growth.kind # "nan") <=> (Len(Series) >= 4 * target_years + 3)
      /\ growth.kind # "nan" => growth.shift = 0

\* a row with missing values that has exactly 4 * target_years + 3 others
C26_Witness ==
    /\ GrowthDone
    /\ Len(Series) = 4 * target_years + 3
    /\ Len(panel_row) > Len(Series)
    /\ growth.kind # "nan"
    /\ growth.shift = 0

----------------------------------------------------------------------------
(* Market risk factors: pairing and the flat benchmark *)

\* the rows of the two series after the cut to equal right-aligned length
AlignedLength == Min(Len(market_data.stock), Len(market_data.benchmark))
AlignedStockRows == LastN(market_data.stock, AlignedLength)
AlignedBenchmarkRows == LastN(market_data.benchmark, AlignedLength)

\* the positions whose two returns enter the regression
PairedPositions ==
    {i \in 1..AlignedLength :
        AlignedStockRows[i].pct_chg # NaN /\ AlignedBenchmarkRows[i].pct_chg # NaN}

\* the regression is reached: enough rows and enough valid pairs
RegressionReached ==
    /\ Len(market_data.stock) >= MinReturns
    /\ Len(market_data.benchmark) >= MinReturns
    /\ Cardinality(PairedPositions) >= MinValidPairs

(* C23: every (stock return, benchmark return) pair used in the beta
   regression is taken from the same trade date, also when the stock has no
   row for a trade date for which the benchmark has one. *)
C23_PairsShareTradeDate ==
    (SafetyDone /\ RegressionReached) =>
      \A i \in PairedPositions :
        AlignedStockRows[i].trade_date = AlignedBenchmarkRows[i].trade_date

\* the benchmark's returns over the paired positions are all equal
BenchmarkFlat ==
    \A i, j \in PairedPositions :
      AlignedBenchmarkRows[i].pct_chg = AlignedBenchmarkRows[j].pct_chg

(* C24: when the benchmark's sample variance over the paired observations
   is zero, neither market-risk factor is emitted, and the stock's other
   safety factors are computed as usual: the debt ratio whenever a debt
   observation exists, Altman Z whenever total_assets of the latest
   snapshot is present and non-zero. *)
C24_FlatBenchmarkNoRiskFactors ==
    (SafetyDone /\ RegressionReached /\ BenchmarkFlat) =>
      /\ SafetyFactor("low_beta") = NaN
      /\ SafetyFactor("low_idiosyncratic_risk") = NaN
      /\ DebtObservations # <<>> => SafetyFactor("low_debt_ratio") # NaN
      /\ AssetsUsable => SafetyFactor("altman_z") # NaN

\* a flat benchmark for a stock that has a debt ratio and an Altman Z
C24_Witness ==
    /\ SafetyDone /\ RegressionReached /\ BenchmarkFlat
    /\ SafetyFactor("low_beta") = NaN
    /\ SafetyFactor("low_debt_ratio") # NaN
    /\ SafetyFactor("altman_z") # NaN

----------------------------------------------------------------------------
(* Polarity of the debt ratio factor *)

\* the financial rows of a peer that differs from the stock only in its
\* debt ratio: every reported debt_to_assets is d
PeerFinancialData(d) ==
    [i \in 1..Len(safety_financial_data) |->
        [safety_financial_data[i] EXCEPT
           !.debt_to_assets = IF @ = NaN THEN NaN ELSE d]]

\* the debt ratio factor of that peer
PeerDebtFactor(d) == CalculateDebtRatio(GetFinancialDataForSafety(PeerFinancialData(d)))

\* debt ratios of peers: lower than any of the stock's, and higher
PeerDebtRatios == {Scale \div 10, (9 * Scale) \div 10}

(* C25: the debt ratio factor is higher-is-better: a peer that differs from
   the stock only by a lower debt ratio never gets the lower factor value,
   and one with a higher debt ratio never gets the higher value. *)
C25_LowerDebtNeverScoresLower ==
    (SafetyDone /\ SafetyFactor("low_debt_ratio") # NaN) =>
      \A d \in PeerDebtRatios :
        /\ (\A i \in 1..Len(DebtObservations) : d < DebtObservations[i])
             => PeerDebtFactor(d) >= SafetyFactor("low_debt_ratio")
        /\ (\A i \in 1..Len(DebtObservations) : d > DebtObservations[i])
             => PeerDebtFactor(d) <= SafetyFactor("low_debt_ratio")

====
